---- MODULE Spec2Model ----
(***************************************************************************)
(* MechaSense: the MQTT session module (lib/mqtt.ts) and the alert         *)
(* dispatcher hook (hooks/useAlertMqtt.ts) as one state machine.           *)
(*                                                                         *)
(* The session module keeps one module-level client and drives the mqtt.js *)
(* client object; the events of that object (connect, error, close,        *)
(* offline, reconnect, the end callback, a publish callback) are steps of  *)
(* the environment that run the handlers the module registered.            *)
(* Everything runs on one JavaScript event loop: every action below is one *)
(* macrotask together with the microtasks it schedules.                    *)
(***************************************************************************)
EXTENDS Integers, Sequences, FiniteSets, Bags, TLC

(* ---------------- bounds of the model ---------------- *)
MaxClients == 3
MaxAttempts == 12
MaxAttemptsAlert == 2
MaxOps == 2
MaxSent == 2
MaxTicks == 2
MaxReconnectTimers == 2
MaxPendingEnds == 1
MaxLoad == 2
TickStep == 15000
StartNow == 30000

(* ---------------- program constants ---------------- *)
MAX_RECONNECT_ATTEMPTS == 10
alertCooldown == 30000
criticalHealthThreshold == 60

\* readings carry their values in hundredths (vibration 2.8 mm/s is 280)
criticalHealthThresholdScaled == criticalHealthThreshold * 100

NoClient == 0
NoId == 0
CbMessage == "message"
Absent == -1

\* detectCriticalConditions has not been called yet
NoResult ==
    [hasCritical |-> FALSE, reasons |-> <<>>, mostSevereParameter |-> "not called",
     mostSevereValue |-> Absent]
NoCb == "null"
CbMount == "mount"
CbReconnect == "reconnect"
Callbacks == {CbMount, CbReconnect}
ClientIds == 1..MaxClients

VARIABLES
    client,              \* module-level client: NoClient or a client id
    isConnecting,
    isCleaningUp,
    connectionAttempts,
    onConnectionChange,  \* the one stored status callback, or NoCb
    onMessageReceived,   \* the one stored message callback, or NoCb
    mq,                  \* the mqtt.js client objects created so far
    created,             \* number of mqtt.connect calls so far
    status,              \* last value each status callback was invoked with
    attached,            \* status callbacks passed to connectMqtt for the current client
    lastConnect,         \* the branch the most recent connectMqtt call took (its log line)
    lastAlertTimeRef,
    wasInCriticalRef,
    isInitializedRef,
    reconnectTimers,     \* pending setTimeout(…, 1000) of reconnect()
    ops,                 \* bag of the pending promises of sendAlertToPLC, sendOffSignalToPLC, sendCustomCommand
    sent,                \* the last MaxSent commands handed to client.publish
    published,           \* the last message handed to client.publish, or NoMessage
    now,                 \* Date.now()
    mqttClientId,        \* sessionStorage item 'mqtt_client_id', or NoId
    detectData,          \* the reading given to detectCriticalConditions
    detectResult,        \* what detectCriticalConditions returned for it, or NoResult
    answers,             \* ai-center: the answer given to each symptom, or "undefined"
    cfComputed,          \* ai-center: the cfRule runDiagnosis computed for each rule
    results,             \* ai-center: the DiagnosisResult list
    conclusion,          \* ai-center: the conclusion, or NoConclusion
    predictRequest,      \* api/ml/predict: the request given to POST
    mlService,           \* api/ml/predict: how the ML service answers /predict/both
    predictResponse      \* api/ml/predict: what POST returned, or NoResponse

sessionVars == <<client, isConnecting, isCleaningUp, connectionAttempts,
                 onConnectionChange, onMessageReceived, mq, created, status, attached,
                 lastConnect>>
\* the arguments and results of the pure functions, which no operation of the
\* session or of the hook touches
detectVars == <<detectData, detectResult>>
diagVars == <<answers, cfComputed, results, conclusion>>
routeVars == <<predictRequest, mlService, predictResponse>>
pureVars == <<detectVars, diagVars, routeVars>>
hookVars == <<lastAlertTimeRef, wasInCriticalRef, isInitializedRef, reconnectTimers,
              ops, sent, published, now, mqttClientId, pureVars>>
vars == <<client, isConnecting, isCleaningUp, connectionAttempts,
          onConnectionChange, onMessageReceived, mq, created, status, attached, lastConnect,
          lastAlertTimeRef, wasInCriticalRef, isInitializedRef, reconnectTimers,
          ops, sent, published, now, mqttClientId, detectData, detectResult,
          answers, cfComputed, results, conclusion,
          predictRequest, mlService, predictResponse>>

(* ---------------- the mqtt.js client object ---------------- *)
\* st: "none" (not created), "connecting", "connected", "closed" (stream closed,
\* reconnect timer armed), "ended" (end() was called on it); clientId: the
\* clientId option it was created with, which it uses for every attempt.
\* subs: the subscribe requests the connect handler of the client made for
\* its present connection, each with the client it was made on and the state
\* of its callback ("pending", "granted", "failed").
NoneClient ==
    [st |-> "none", reconnecting |-> FALSE, endCbs |-> 0, clientId |-> NoId, subs |-> <<>>]

\* getStableClientId() in the browser: the stored identifier, or a newly
\* generated one (timestamp and random suffix: different from every earlier
\* one), which is then stored.  Identifier 1 is the one generated when the
\* module is loaded (MQTT_OPTIONS.clientId).
getStableClientId == IF mqttClientId # NoId THEN mqttClientId ELSE created + 2

Live(c) == mq[c].st \in {"connecting", "connected", "closed"}

\* client.connected of the module-level client
Connected == client # NoClient /\ mq[client].st = "connected"

isMqttConnected == Connected

\* onConnectionChange?.(v) for the callback cb
Notify(s, cb, v) == IF cb = NoCb THEN s ELSE [s EXCEPT ![cb] = v]

TOPICS == [PLC_CONTROL |-> "PLC/CP2E/Control", PLC_STATUS |-> "plc/cp2e/status"]

\* A message handed to client.publish: topic, qos and the fields of the JSON
\* payload; a field the payload does not have is Absent ("none" for alertType),
\* and so is an alertValue of null.
NoMessage ==
    [topic |-> "none", qos |-> Absent, W1 |-> Absent, W2 |-> Absent,
     timestamp |-> Absent, source |-> "none", alertType |-> "none",
     alertValue |-> Absent]

InitModule ==
    /\ client = NoClient
    /\ isConnecting = FALSE
    /\ isCleaningUp = FALSE
    /\ connectionAttempts = 0
    /\ onConnectionChange = NoCb
    /\ onMessageReceived = NoCb
    /\ mq = [c \in ClientIds |-> NoneClient]
    /\ created = 0
    /\ status = [cb \in Callbacks |-> "none"]
    /\ attached = {}
    /\ lastConnect = "none"
    /\ lastAlertTimeRef = 0
    /\ wasInCriticalRef = FALSE
    /\ isInitializedRef = FALSE
    /\ reconnectTimers = 0
    /\ ops = EmptyBag
    /\ sent = <<>>
    /\ published = NoMessage
    /\ now = StartNow
    /\ mqttClientId = 1

(* ======================================================================= *)
(* app/ai-center/page.tsx: the expert system                               *)
(* ======================================================================= *)

\* Certainty factors are integers: an expert CF in thousandths, the value of a
\* fuzzy level in tenths, their product (a contribution, a rule CF) in
\* ten-thousandths; the cfRule of a DiagnosisResult, rounded by toFixed(2), is
\* in hundredths.
NotRun == 200000
NoCf == 100000
NoConclusion == [percent |-> Absent, label |-> "null"]

\* the symptom catalog (lib/expert-system/symptoms): id and cfExpert
symptoms ==
    << [id |-> 1, cfExpert |-> 800],
       [id |-> 2, cfExpert |-> 600],
       [id |-> 3, cfExpert |-> 850],
       [id |-> 4, cfExpert |-> -500],
       [id |-> 5, cfExpert |-> 4] >>

\* the rule catalog (lib/expert-system/rules)
rules ==
    << [id |-> "R1", symptoms |-> <<1, 2>>, operator |-> "AND", level |-> "A"],
       [id |-> "R2", symptoms |-> <<1, 2>>, operator |-> "OR",  level |-> "B"],
       [id |-> "R3", symptoms |-> <<2, 3>>, operator |-> "AND", level |-> "C"],
       [id |-> "R4", symptoms |-> <<3, 4>>, operator |-> "OR",  level |-> "A"],
       [id |-> "R5", symptoms |-> <<4>>,    operator |-> "AND", level |-> "C"],
       [id |-> "R6", symptoms |-> <<5>>,    operator |-> "OR",  level |-> "B"] >>

SymptomIds == {symptoms[i].id : i \in 1..Len(symptoms)}

UserAnswers == {"No", "Sometimes", "Yes"}

\* every Record<number, UserAnswer> over the symptoms of the catalog
AnswerSets == [SymptomIds -> UserAnswers \cup {"undefined"}]

\* fuzzyLevelToValue(level), in tenths
fuzzyLevelToValue(level) ==
    CASE level = "No" -> 0
      [] level = "Sometimes" -> 5
      [] level = "Yes" -> 10
      [] OTHER -> 0

levelScore == [A |-> 40, B |-> 70, C |-> 100]

\* symptoms.find((s) => s.id === sid)?.cfExpert, NoCf for undefined
expertCFOf(sid) ==
    IF sid \in SymptomIds
      THEN symptoms[CHOOSE i \in 1..Len(symptoms) : symptoms[i].id = sid].cfExpert
      ELSE NoCf

\* cfValues when a symptom without an answer is counted as the answer No
RECURSIVE cfValuesFrom_UnansweredAsNo(_, _)
cfValuesFrom_UnansweredAsNo(sids, k) ==
    IF k > Len(sids) THEN <<>>
    ELSE LET sid == sids[k]
             userAnswer == IF sid \in DOMAIN answers THEN answers[sid] ELSE "undefined"
             expertCF == expertCFOf(sid)
         IN  IF expertCF # NoCf
               THEN <<fuzzyLevelToValue(userAnswer) * expertCF>>
                        \o cfValuesFrom_UnansweredAsNo(sids, k + 1)
               ELSE cfValuesFrom_UnansweredAsNo(sids, k + 1)

\* cfValues after the inner forEach over rule.symptoms[k..]
RECURSIVE cfValuesFrom(_, _)
cfValuesFrom(sids, k) ==
    IF k > Len(sids) THEN <<>>
    ELSE LET sid == sids[k]
             userAnswer == IF sid \in DOMAIN answers THEN answers[sid] ELSE "undefined"
             expertCF == expertCFOf(sid)
         IN  IF userAnswer # "undefined" /\ expertCF # NoCf
               THEN <<fuzzyLevelToValue(userAnswer) * expertCF>> \o cfValuesFrom(sids, k + 1)
               ELSE cfValuesFrom(sids, k + 1)

\* Math.max(...xs) and Math.min(...xs) of a non-empty list
RECURSIVE MathMax(_)
MathMax(xs) ==
    IF Len(xs) = 1 THEN xs[1]
    ELSE LET m == MathMax(Tail(xs)) IN IF xs[1] > m THEN xs[1] ELSE m

RECURSIVE MathMin(_)
MathMin(xs) ==
    IF Len(xs) = 1 THEN xs[1]
    ELSE LET m == MathMin(Tail(xs)) IN IF xs[1] < m THEN xs[1] ELSE m

\* the const cfRule with Math.max for every operator
cfRuleOf_AlwaysMax(rule) ==
    LET cfValues == cfValuesFrom(rule.symptoms, 1)
    IN  IF Len(cfValues) = 0 THEN NoCf ELSE MathMax(cfValues)

\* the const cfRule of runDiagnosis for a rule, NoCf when the rule is left
\* (cfValues.length === 0)
cfRuleOf(rule) ==
    LET cfValues == cfValuesFrom(rule.symptoms, 1)
    IN  IF Len(cfValues) = 0 THEN NoCf
        ELSE IF rule.operator = "OR" THEN MathMax(cfValues) ELSE MathMin(cfValues)

\* The products of 0.5 and an expert CF of two decimals that end in 5
\* thousandths and whose double is not below the decimal value, in
\* thousandths: toFixed(2) rounds these up and the others down.
TieRoundsUp ==
    {5, 25, 35, 55, 65, 85, 95, 115, 125, 135, 165, 195, 225, 255, 265, 275, 315,
     325, 335, 375, 385, 395, 405, 445, 455, 465}

\* Number(x.toFixed(2)) for x > 0 in ten-thousandths; the result is in
\* hundredths
toFixed2(x) ==
    IF x % 100 = 50
      THEN (IF x \div 10 \in TieRoundsUp THEN x \div 100 + 1 ELSE x \div 100)
      ELSE (x + 50) \div 100

\* output when a rule is pushed for every cfRule >= 0
RECURSIVE outputFrom_NotNegative(_)
outputFrom_NotNegative(k) ==
    IF k > Len(rules) THEN <<>>
    ELSE LET rule == rules[k]
             cfRule == cfRuleOf(rule)
         IN  IF cfRule # NoCf /\ cfRule >= 0
               THEN <<[id |-> rule.id, level |-> rule.level, cfRule |-> toFixed2(cfRule)]>>
                        \o outputFrom_NotNegative(k + 1)
               ELSE outputFrom_NotNegative(k + 1)

\* output when a result is put in front of the list (unshift)
RECURSIVE outputFrom_Unshift(_)
outputFrom_Unshift(k) ==
    IF k > Len(rules) THEN <<>>
    ELSE LET rule == rules[k]
             cfRule == cfRuleOf(rule)
         IN  IF cfRule # NoCf /\ cfRule > 0
               THEN outputFrom_Unshift(k + 1)
                        \o <<[id |-> rule.id, level |-> rule.level, cfRule |-> toFixed2(cfRule)]>>
               ELSE outputFrom_Unshift(k + 1)

\* output after rules.forEach over rules[k..]
RECURSIVE outputFrom(_)
outputFrom(k) ==
    IF k > Len(rules) THEN <<>>
    ELSE LET rule == rules[k]
             cfRule == cfRuleOf(rule)
         IN  IF cfRule # NoCf /\ cfRule > 0
               THEN <<[id |-> rule.id, level |-> rule.level, cfRule |-> toFixed2(cfRule)]>>
                        \o outputFrom(k + 1)
               ELSE outputFrom(k + 1)

RECURSIVE totalScoreOf(_)
totalScoreOf(data) ==
    IF data = <<>> THEN 0 ELSE levelScore[data[1].level] + totalScoreOf(Tail(data))

\* calculateConclusion with the buckets percent < 40 and percent < 70
calculateConclusion_StrictBuckets(data) ==
    IF Len(data) = 0 THEN NoConclusion
    ELSE LET totalScore == totalScoreOf(data)
             n == Len(data)
         IN  [percent |-> (2 * 10 * totalScore + n) \div (2 * n),
              label |-> IF totalScore < 40 * n THEN "Minor"
                        ELSE IF totalScore < 70 * n THEN "Moderate"
                        ELSE "Severe"]

\* calculateConclusion without the return for an empty list: percent is
\* 0 / 0 = NaN, which is neither <= 40 nor <= 70
calculateConclusion_NoEmptyReturn(data) ==
    LET totalScore == totalScoreOf(data)
        n == Len(data)
    IN  [percent |-> IF n = 0 THEN Absent ELSE (2 * 10 * totalScore + n) \div (2 * n),
         label |-> IF n > 0 /\ totalScore <= 40 * n THEN "Minor"
                   ELSE IF n > 0 /\ totalScore <= 70 * n THEN "Moderate"
                   ELSE "Severe"]

\* calculateConclusion that divides by the size of the rule catalog instead of
\* data.length
calculateConclusion_OverCatalog(data) ==
    IF Len(data) = 0 THEN NoConclusion
    ELSE LET totalScore == totalScoreOf(data)
             n == Len(rules)
         IN  [percent |-> (2 * 10 * totalScore + n) \div (2 * n),
              label |-> IF totalScore <= 40 * n THEN "Minor"
                        ELSE IF totalScore <= 70 * n THEN "Moderate"
                        ELSE "Severe"]

\* calculateConclusion(data): percent is kept in tenths (toFixed(1))
calculateConclusion(data) ==
    IF Len(data) = 0 THEN NoConclusion
    ELSE LET totalScore == totalScoreOf(data)
             n == Len(data)
         IN  [percent |-> (2 * 10 * totalScore + n) \div (2 * n),
              label |-> IF totalScore <= 40 * n THEN "Minor"
                        ELSE IF totalScore <= 70 * n THEN "Moderate"
                        ELSE "Severe"]

\* runDiagnosis(): setResults(output) and calculateConclusion(output)
runDiagnosis ==
    /\ cfComputed' = [r \in 1..Len(rules) |-> cfRuleOf(rules[r])]
    /\ results' = outputFrom(1)
    /\ conclusion' = calculateConclusion(outputFrom(1))
    /\ UNCHANGED <<sessionVars, lastAlertTimeRef, wasInCriticalRef, isInitializedRef,
                   reconnectTimers, ops, sent, published, now, mqttClientId, detectVars, routeVars,
                   answers>>

\* the onChange of the radio button `option` of the symptom sid
setAnswer(sid, option) ==
    /\ answers' = [answers EXCEPT ![sid] = option]
    /\ UNCHANGED <<sessionVars, lastAlertTimeRef, wasInCriticalRef, isInitializedRef,
                   reconnectTimers, ops, sent, published, now, mqttClientId, detectVars, routeVars,
                   cfComputed, results, conclusion>>

\* the AI center before any answer is given
InitDiagVars ==
    /\ answers = [sid \in SymptomIds |-> "undefined"]
    /\ cfComputed = [r \in 1..Len(rules) |-> NotRun]
    /\ results = <<>>
    /\ conclusion = NoConclusion

(* ---------------- app/api/ml/predict/route.ts ---------------- *)
\* the largest number of vibrationReadings of a request
MaxReadings == 2

NoHealthScore == [score |-> Absent, category |-> "none"]

NoRequest == [body |-> "none", readings |-> 0, sensorData |-> "undefined"]

NoResponse ==
    [status |-> 0, success |-> FALSE, healthScore |-> NoHealthScore,
     mlPrediction |-> "none", mlServiceStatus |-> "none", mlServiceError |-> "none"]

\* the sensorData of a request: absent, of a motor in good order, of a worn one
SensorDataKinds == {"undefined", "nominal", "worn"}

\* the requests: a body that is not JSON, the JSON null, and the JSON objects
\* with 0..MaxReadings vibrationReadings and a sensorData
PredictRequests ==
    {[body |-> "not JSON", readings |-> 0, sensorData |-> "undefined"],
     [body |-> "null", readings |-> 0, sensorData |-> "undefined"]}
    \cup [body : {"object"}, readings : 0..MaxReadings, sensorData : SensorDataKinds]

\* what fetch(ML_SERVICE_URL/predict/both) does: it rejects (no connection, or
\* the 10 s AbortSignal.timeout), or resolves with a status that is not OK, or
\* resolves OK, each with a body of one of the given kinds
MlUnreachable == {"unreachable", "timeout"}
MlNotOk == {"not OK, detail", "not OK, no detail", "not OK, not JSON", "not OK, null"}
MlMalformed == {"OK, not JSON", "OK, null", "OK, no classification", "OK, no regression"}
MlAnswers == MlUnreachable \cup MlNotOk \cup MlMalformed \cup {"OK, prediction"}

\* calculateHealthScore(sensorData) (lib/calculateHealthScore): a score and a
\* category for every sensorData
calculateHealthScore(sensorData) ==
    CASE sensorData = "nominal" -> [score |-> 95, category |-> "Healthy"]
      [] sensorData = "worn" -> [score |-> 55, category |-> "At Risk"]
      [] OTHER -> [score |-> 100, category |-> "Healthy"]

\* the call of the ML service when the inner catch hands the error on
mlCall_NoCatch(ml) ==
    CASE ml \in MlUnreachable \cup {"not OK, null", "OK, not JSON"} ->
             [mlPrediction |-> "null", mlServiceError |-> "null", thrown |-> TRUE]
      [] ml = "not OK, detail" ->
             [mlPrediction |-> "null", mlServiceError |-> "errorData.detail", thrown |-> FALSE]
      [] ml \in {"not OK, no detail", "not OK, not JSON"} ->
             [mlPrediction |-> "null", mlServiceError |-> "ML service error: status",
              thrown |-> FALSE]
      [] ml = "OK, prediction" ->
             [mlPrediction |-> "prediction", mlServiceError |-> "null", thrown |-> FALSE]
      [] ml = "OK, null" ->
             [mlPrediction |-> "null", mlServiceError |-> "null", thrown |-> FALSE]
      [] ml = "OK, no classification" ->
             [mlPrediction |-> "no classification", mlServiceError |-> "null", thrown |-> FALSE]
      [] ml = "OK, no regression" ->
             [mlPrediction |-> "no regression", mlServiceError |-> "null", thrown |-> FALSE]

\* the try / catch around the call of the ML service: mlPrediction and
\* mlServiceError after it; thrown: an error left the block (never)
mlCall(ml) ==
    CASE ml \in MlUnreachable ->
             \* fetch rejects: catch, error.message
             [mlPrediction |-> "null", mlServiceError |-> "error.message", thrown |-> FALSE]
      [] ml = "not OK, detail" ->
             [mlPrediction |-> "null", mlServiceError |-> "errorData.detail", thrown |-> FALSE]
      [] ml \in {"not OK, no detail", "not OK, not JSON"} ->
             \* errorData is the body without detail, or {} from .catch(() => ({}))
             [mlPrediction |-> "null", mlServiceError |-> "ML service error: status",
              thrown |-> FALSE]
      [] ml = "not OK, null" ->
             \* errorData is null: errorData.detail throws a TypeError, caught
             [mlPrediction |-> "null", mlServiceError |-> "error.message", thrown |-> FALSE]
      [] ml = "OK, prediction" ->
             [mlPrediction |-> "prediction", mlServiceError |-> "null", thrown |-> FALSE]
      [] ml = "OK, not JSON" ->
             \* mlResponse.json() rejects: catch, error.message
             [mlPrediction |-> "null", mlServiceError |-> "error.message", thrown |-> FALSE]
      [] ml = "OK, null" ->
             [mlPrediction |-> "null", mlServiceError |-> "null", thrown |-> FALSE]
      [] ml = "OK, no classification" ->
             [mlPrediction |-> "no classification", mlServiceError |-> "null", thrown |-> FALSE]
      [] ml = "OK, no regression" ->
             [mlPrediction |-> "no regression", mlServiceError |-> "null", thrown |-> FALSE]

\* the response of the outer catch
ErrorResponse ==
    [status |-> 500, success |-> FALSE, healthScore |-> NoHealthScore,
     mlPrediction |-> "none", mlServiceStatus |-> "none", mlServiceError |-> "none"]

\* the NextResponse.json(...) POST returns for the request req when the ML
\* service answers as ml
POSTResponse(req, ml) ==
    IF req.body # "object"
      THEN \* request.json() throws, or the destructuring of null does
           ErrorResponse
      ELSE LET healthResult == calculateHealthScore(req.sensorData)
               call == IF req.readings >= 1 THEN mlCall(ml)
                       ELSE [mlPrediction |-> "null",
                             mlServiceError |-> "Not enough vibration readings",
                             thrown |-> FALSE]
           IN  IF call.thrown THEN ErrorResponse
               ELSE IF call.mlPrediction \in {"no classification", "no regression"}
                 THEN \* mlPrediction.classification.will_fail_soon or
                      \* mlPrediction.regression.minutes_to_failure throws a TypeError
                      ErrorResponse
               ELSE [status |-> 200, success |-> TRUE, healthScore |-> healthResult,
                     mlPrediction |-> call.mlPrediction,
                     mlServiceStatus |-> IF call.mlPrediction # "null" THEN "available"
                                         ELSE "unavailable",
                     mlServiceError |-> call.mlServiceError]

\* POST(request)
POST ==
    /\ predictResponse = NoResponse
    /\ predictResponse' = POSTResponse(predictRequest, mlService)
    /\ UNCHANGED <<sessionVars, lastAlertTimeRef, wasInCriticalRef, isInitializedRef,
                   reconnectTimers, ops, sent, published, now, mqttClientId, detectVars, diagVars,
                   predictRequest, mlService>>

\* no request has been made
InitRouteVars ==
    /\ predictRequest = NoRequest
    /\ mlService = "OK, prediction"
    /\ predictResponse = NoResponse

\* no reading has been given to detectCriticalConditions
InitDetectVars ==
    /\ detectData = [k \in {} |-> Absent]
    /\ detectResult = NoResult

\* the pages before any reading has been evaluated and any diagnosis made
Init ==
    /\ InitModule
    /\ InitDetectVars
    /\ InitDiagVars
    /\ InitRouteVars

(* ======================================================================= *)
(* lib/mqtt.ts                                                             *)
(* ======================================================================= *)

\* connectMqtt, "Return existing client if already connected": the handle is
\* returned and the stored status callback cb is told true
alreadyConnected_Silent(cb, passed) ==
    /\ lastConnect' = "connected"
    /\ attached' = attached \cup passed
    /\ UNCHANGED <<client, isConnecting, isCleaningUp, connectionAttempts, mq, created,
                   status, mqttClientId>>

alreadyConnected(cb, passed) ==
    /\ lastConnect' = "connected"
    /\ status' = Notify(status, cb, "up")
    /\ attached' = attached \cup passed
    /\ UNCHANGED <<client, isConnecting, isCleaningUp, connectionAttempts, mq, created,
                   mqttClientId>>

\* connectMqtt(onConnect?, onMessage?); NoCb stands for an omitted argument.
\* lastConnect names the branch taken: "cleanup", "inprogress" and "maxed"
\* return null, the others return the module-level client.
connectMqtt(onConnect, onMessage) ==
    LET cbC == IF onConnect # NoCb THEN onConnect ELSE onConnectionChange
        cbM == IF onMessage # NoCb THEN onMessage ELSE onMessageReceived
        passed == IF onConnect # NoCb THEN {onConnect} ELSE {}
    IN  /\ onConnectionChange' = cbC
        /\ onMessageReceived' = cbM
        /\ IF isCleaningUp
             THEN \* "Cleanup in progress, skipping connection..."
                  /\ lastConnect' = "cleanup"
                  /\ UNCHANGED <<client, isConnecting, isCleaningUp, connectionAttempts,
                                 mq, created, status, attached, mqttClientId>>
           ELSE IF client # NoClient /\ mq[client].st = "connected"
             THEN alreadyConnected(cbC, passed)
           ELSE IF client # NoClient
             THEN \* "Client exists but not connected, waiting for reconnection..."
                  /\ lastConnect' = "waiting"
                  /\ attached' = attached \cup passed
                  /\ UNCHANGED <<client, isConnecting, isCleaningUp, connectionAttempts,
                                 mq, created, status, mqttClientId>>
           ELSE IF isConnecting
             THEN \* "Connection already in progress..."
                  /\ lastConnect' = "inprogress"
                  /\ UNCHANGED <<client, isConnecting, isCleaningUp, connectionAttempts,
                                 mq, created, status, attached, mqttClientId>>
           ELSE IF connectionAttempts >= MAX_RECONNECT_ATTEMPTS
             THEN \* "Max reconnection attempts reached. Please refresh the page."
                  /\ lastConnect' = "maxed"
                  /\ UNCHANGED <<client, isConnecting, isCleaningUp, connectionAttempts,
                                 mq, created, status, attached, mqttClientId>>
           ELSE \* client = mqtt.connect(MQTT_BROKER_URL, options)
                  /\ created < MaxClients
                  /\ lastConnect' = "created"
                  /\ isConnecting' = TRUE
                  /\ connectionAttempts' = connectionAttempts + 1
                  /\ created' = created + 1
                  /\ client' = created + 1
                  /\ mqttClientId' = getStableClientId
                  /\ mq' = [mq EXCEPT ![created + 1] =
                               [st |-> "connecting", reconnecting |-> FALSE, endCbs |-> 0,
                                clientId |-> getStableClientId, subs |-> <<>>]]
                  /\ attached' = passed
                  /\ UNCHANGED <<isCleaningUp, status>>

\* the callback of client.end when it leaves isConnecting as it is
endCallback_KeepConnecting ==
    /\ client' = NoClient
    /\ isConnecting' = isConnecting
    /\ isCleaningUp' = FALSE
    /\ status' = Notify(status, onConnectionChange, "down")

\* The callback given to client.end(true, {}, cb)
endCallback ==
    /\ client' = NoClient
    /\ isConnecting' = FALSE
    /\ isCleaningUp' = FALSE
    /\ status' = Notify(status, onConnectionChange, "down")

\* disconnectMqtt(): removeAllListeners and end(true, {}, cb) on the
\* module-level client.  The callback of end() runs later, when the client has
\* closed; mqtt.js runs it at once when end() had already been called on that
\* client.
disconnectMqtt ==
    IF client = NoClient
      THEN UNCHANGED sessionVars
      ELSE \/ /\ mq[client].endCbs < MaxPendingEnds
              /\ isCleaningUp' = TRUE
              /\ mq' = [mq EXCEPT ![client].st = "ended",
                                  ![client].reconnecting = FALSE,
                                  ![client].subs = <<>>,
                                  ![client].endCbs = @ + 1]
              /\ UNCHANGED <<client, isConnecting, connectionAttempts, onConnectionChange,
                             onMessageReceived, created, status, attached, lastConnect>>
           \/ /\ mq[client].st = "ended"
              /\ endCallback
              /\ UNCHANGED <<connectionAttempts, onConnectionChange, onMessageReceived,
                             mq, created, attached, lastConnect>>

\* the end callback when it resets connectionAttempts as well
EndDone_ResetsAttempts(c) ==
    /\ mq[c].endCbs > 0
    /\ mq' = [mq EXCEPT ![c].endCbs = @ - 1]
    /\ endCallback
    /\ connectionAttempts' = 0
    /\ UNCHANGED <<onConnectionChange, onMessageReceived, created, attached, lastConnect>>
    /\ UNCHANGED hookVars

\* completion of client.end for client c: its callback runs
EndDone(c) ==
    /\ mq[c].endCbs > 0
    /\ mq' = [mq EXCEPT ![c].endCbs = @ - 1]
    /\ endCallback
    /\ UNCHANGED <<connectionAttempts, onConnectionChange, onMessageReceived,
                   created, attached, lastConnect>>
    /\ UNCHANGED hookVars

\* the request of client?.subscribe(TOPICS.PLC_STATUS, { qos: 1 }, cb)
SubscribeRequest ==
    [on |-> client, topic |-> TOPICS.PLC_STATUS, qos |-> 1, cb |-> "pending"]

\* client?.subscribe(...) in the connect handler: the request is made on the
\* module-level client; nothing is requested when client is null, and an
\* ended client refuses the request
subscribe ==
    IF client # NoClient /\ mq[client].st # "ended" THEN <<SubscribeRequest>> ELSE <<>>

\* client.on("connect"): the broker acknowledged the connection of c
OnConnect(c) ==
    /\ mq[c].st = "connecting"
    /\ mq' = [mq EXCEPT ![c].st = "connected", ![c].reconnecting = FALSE,
                        ![c].subs = subscribe]
    /\ isConnecting' = FALSE
    /\ connectionAttempts' = 0
    /\ status' = Notify(status, onConnectionChange, "up")
    /\ UNCHANGED <<client, isCleaningUp, onConnectionChange, onMessageReceived,
                   created, attached, lastConnect>>
    /\ UNCHANGED hookVars

\* client.on("error"); the handler only clears isConnecting, so the event is
\* a step only while isConnecting is set
OnError(c) ==
    /\ mq[c].st \in {"connecting", "connected"}
    /\ isConnecting
    /\ isConnecting' = FALSE
    /\ UNCHANGED <<client, isCleaningUp, connectionAttempts, onConnectionChange,
                   onMessageReceived, mq, created, status, attached, lastConnect>>
    /\ UNCHANGED hookVars

\* client.on("close"): the stream of c closed; mqtt.js arms its reconnect timer
OnClose(c) ==
    /\ mq[c].st \in {"connecting", "connected"}
    /\ mq' = [mq EXCEPT ![c].st = "closed", ![c].subs = <<>>]
    /\ isConnecting' = FALSE
    /\ status' = IF isCleaningUp THEN status ELSE Notify(status, onConnectionChange, "down")
    /\ UNCHANGED <<client, isCleaningUp, connectionAttempts, onConnectionChange,
                   onMessageReceived, created, attached, lastConnect>>
    /\ UNCHANGED hookVars

\* client.on("offline"): emitted once per outage
OnOffline(c) ==
    /\ mq[c].st = "closed"
    /\ ~mq[c].reconnecting
    /\ mq' = [mq EXCEPT ![c].reconnecting = TRUE]
    /\ status' = IF isCleaningUp THEN status ELSE Notify(status, onConnectionChange, "down")
    /\ UNCHANGED <<client, isConnecting, isCleaningUp, connectionAttempts,
                   onConnectionChange, onMessageReceived, created, attached, lastConnect>>
    /\ UNCHANGED hookVars

\* the callback of client.subscribe for the i-th request of the connect
\* handler of c: the broker granted the subscription, or the request failed
\* (err); the callback writes a line to the console
SubscribeCallback(c, i, err) ==
    /\ i \in 1..Len(mq[c].subs)
    /\ mq[c].subs[i].cb = "pending"
    /\ mq[mq[c].subs[i].on].st = "connected"
    /\ mq' = [mq EXCEPT ![c].subs[i].cb = IF err THEN "failed" ELSE "granted"]
    /\ UNCHANGED <<client, isConnecting, isCleaningUp, connectionAttempts, onConnectionChange,
                   onMessageReceived, created, status, attached, lastConnect>>
    /\ UNCHANGED hookVars

\* client.on("reconnect"): the reconnectPeriod timer of c fired, a new stream
\* is opened
OnReconnect(c, cap) ==
    /\ mq[c].st = "closed"
    /\ connectionAttempts < cap
    /\ mq' = [mq EXCEPT ![c].st = "connecting"]
    /\ connectionAttempts' = connectionAttempts + 1
    /\ UNCHANGED <<client, isConnecting, isCleaningUp, onConnectionChange,
                   onMessageReceived, created, status, attached, lastConnect>>
    /\ UNCHANGED hookVars

(* ======================================================================= *)
(* lib/mqtt.ts: PLC control functions                                      *)
(* ======================================================================= *)

Pending == BagToSet(ops)

\* number of promises of the bag b that are in the set S
RECURSIVE Copies(_, _)
Copies(S, b) ==
    IF S = {} THEN 0
    ELSE LET o == CHOOSE x \in S : TRUE IN CopiesIn(o, b) + Copies(S \ {o}, b)

\* an ON or OFF command is handed to the transport by a request made now:
\* every promise still waiting for its 3000 ms timer belongs to an earlier
\* request that has not been published yet
Overtake(b) ==
    LET late(o) == IF o.pc = "timer" THEN [o EXCEPT !.overtaken = TRUE] ELSE o
        T == {late(o) : o \in BagToSet(b)}
    IN  [x \in T |-> Copies({o \in BagToSet(b) : late(o) = x}, b)]

\* Math.floor(Date.now() / 1000)
UnixSeconds == now \div 1000

\* sendAlertPayload(alertType, alertValue): the message it publishes
sendAlertPayload(alertType, alertValue) ==
    [topic |-> TOPICS.PLC_CONTROL, qos |-> 1, W1 |-> 1, W2 |-> Absent,
     timestamp |-> UnixSeconds, source |-> "mechasense-web",
     alertType |-> IF alertType \in {"undefined", ""} THEN "CRITICAL" ELSE alertType,
     alertValue |-> alertValue]

\* an OFF message that carries W1 as well
sendOffPayload_BothSignals ==
    [topic |-> TOPICS.PLC_CONTROL, qos |-> 1, W1 |-> 1, W2 |-> 1,
     timestamp |-> UnixSeconds, source |-> "mechasense-web",
     alertType |-> "none", alertValue |-> Absent]

\* the message sendOffSignalToPLC publishes
sendOffPayload ==
    [topic |-> TOPICS.PLC_CONTROL, qos |-> 1, W1 |-> Absent, W2 |-> 1,
     timestamp |-> UnixSeconds, source |-> "mechasense-web",
     alertType |-> "none", alertValue |-> Absent]

\* the message sendCustomCommand publishes for a command without W1 and W2
sendCustomPayload ==
    [topic |-> TOPICS.PLC_CONTROL, qos |-> 1, W1 |-> Absent, W2 |-> Absent,
     timestamp |-> UnixSeconds, source |-> "mechasense-web",
     alertType |-> "none", alertValue |-> Absent]

\* client.publish(TOPICS.PLC_CONTROL, …): the command is handed to the transport
Publish(cmd, by) ==
    LET e == [cmd |-> cmd, by |-> by]
    IN  IF Len(sent) < MaxSent THEN Append(sent, e) ELSE Append(Tail(sent), e)

\* the refs are written for the commands of the manual buttons as well
Settle_AnyOrigin(cmd, by, t, ok) ==
    IF cmd = "ON" /\ ok
      THEN lastAlertTimeRef' = t /\ wasInCriticalRef' = TRUE
    ELSE IF cmd = "OFF" /\ ok
      THEN wasInCriticalRef' = FALSE /\ UNCHANGED lastAlertTimeRef
    ELSE UNCHANGED <<lastAlertTimeRef, wasInCriticalRef>>

\* the refs are written whether the promise resolved true or false
Settle_IgnoreResult(cmd, by, t, ok) ==
    IF by = "auto" /\ cmd = "ON"
      THEN lastAlertTimeRef' = t /\ wasInCriticalRef' = TRUE
    ELSE IF by = "auto" /\ cmd = "OFF"
      THEN wasInCriticalRef' = FALSE /\ UNCHANGED lastAlertTimeRef
    ELSE UNCHANGED <<lastAlertTimeRef, wasInCriticalRef>>

\* the promise settles with ok; the awaiting continuation of checkAndSendAlert
\* (by = "auto") runs in the same turn of the event loop
Settle(cmd, by, t, ok) ==
    IF by = "auto" /\ cmd = "ON" /\ ok
      THEN lastAlertTimeRef' = t /\ wasInCriticalRef' = TRUE
    ELSE IF by = "auto" /\ cmd = "OFF" /\ ok
      THEN wasInCriticalRef' = FALSE /\ UNCHANGED lastAlertTimeRef
    ELSE UNCHANGED <<lastAlertTimeRef, wasInCriticalRef>>

\* sendAlertToPLC(alertType, alertValue): publishes at once when connected;
\* otherwise calls connectMqtt() and looks again after 3000 ms (waited).  The
\* pending promise carries alertType and alertValue of the payload.
sendAlertToPLC(by, t, alertType, alertValue) ==
    /\ BagCardinality(ops) < MaxOps
    /\ IF ~Connected
         THEN /\ connectMqtt(NoCb, NoCb)
              /\ ops' = ops (+) SetToBag({[pc |-> "timer", cmd |-> "ON", by |-> by, t |-> t,
                                           cl |-> NoClient, waited |-> TRUE,
                                           overtaken |-> FALSE,
                                           alertType |-> alertType,
                                           alertValue |-> alertValue]})
              /\ UNCHANGED <<sent, published>>
         ELSE /\ ops' = Overtake(ops)
                           (+) SetToBag({[pc |-> "ack", cmd |-> "ON", by |-> by, t |-> t,
                                          cl |-> client, waited |-> FALSE,
                                          overtaken |-> FALSE,
                                          alertType |-> alertType,
                                          alertValue |-> alertValue]})
              /\ sent' = Publish("ON", by)
              /\ published' = sendAlertPayload(alertType, alertValue)
              /\ UNCHANGED <<sessionVars, mqttClientId>>
    /\ UNCHANGED <<lastAlertTimeRef, wasInCriticalRef>>

\* the setTimeout(…, 3000) of sendAlertToPLC fires for the pending promise o
AlertTimer(o) ==
    /\ o.pc = "timer"
    /\ IF ~Connected
         THEN \* "Failed to connect. Cannot send alert.": resolve(false)
              /\ Settle(o.cmd, o.by, o.t, FALSE)
              /\ ops' = ops (-) SetToBag({o})
              /\ UNCHANGED <<sent, published>>
         ELSE \* sendAlertPayload
              /\ ops' = (ops (-) SetToBag({o}))
                           (+) SetToBag({[o EXCEPT !.pc = "ack", !.cl = client]})
              /\ sent' = Publish("ON", o.by)
              /\ published' = sendAlertPayload(o.alertType, o.alertValue)
              /\ UNCHANGED <<lastAlertTimeRef, wasInCriticalRef>>
    /\ UNCHANGED sessionVars
    /\ UNCHANGED <<isInitializedRef, reconnectTimers, now, mqttClientId, pureVars>>

\* sendNow without the connection check: the command is handed to whatever
\* client there is
sendNow_Unchecked(cmd, by) ==
    /\ client # NoClient
    /\ mq[client].st # "ended"
    /\ BagCardinality(ops) < MaxOps
    /\ ops' = (IF cmd = "CUSTOM" THEN ops ELSE Overtake(ops))
                 (+) SetToBag({[pc |-> "ack", cmd |-> cmd, by |-> by, t |-> 0,
                                cl |-> client, waited |-> ~Connected,
                                overtaken |-> FALSE,
                                alertType |-> "none", alertValue |-> Absent]})
    /\ sent' = Publish(cmd, by)
    /\ published' = (IF cmd = "OFF" THEN sendOffPayload ELSE sendCustomPayload)
    /\ UNCHANGED <<lastAlertTimeRef, wasInCriticalRef>>

\* sendOffSignalToPLC (cmd = "OFF") and sendCustomCommand (cmd = "CUSTOM")
sendNow(cmd, by) ==
    IF ~Connected
      THEN \* "Not connected. Cannot send …": resolve(false)
           /\ Settle(cmd, by, 0, FALSE)
           /\ UNCHANGED <<ops, sent, published>>
      ELSE /\ BagCardinality(ops) < MaxOps
           /\ ops' = (IF cmd = "CUSTOM" THEN ops ELSE Overtake(ops))
                        (+) SetToBag({[pc |-> "ack", cmd |-> cmd, by |-> by, t |-> 0,
                                       cl |-> client, waited |-> FALSE,
                                       overtaken |-> FALSE,
                                       alertType |-> "none", alertValue |-> Absent]})
           /\ sent' = Publish(cmd, by)
           /\ published' = (IF cmd = "OFF" THEN sendOffPayload ELSE sendCustomPayload)
           /\ UNCHANGED <<lastAlertTimeRef, wasInCriticalRef>>

sendOffSignalToPLC(by) == sendNow("OFF", by)

sendCustomCommand == sendNow("CUSTOM", "manual")

\* the callback of client.publish for the pending promise o: the broker
\* acknowledged the QoS 1 message (ok), or the client was ended with the
\* message outstanding (~ok)
PublishCallback(o, ok) ==
    /\ o.pc = "ack"
    /\ mq[o.cl].st = (IF ok THEN "connected" ELSE "ended")
    /\ Settle(o.cmd, o.by, o.t, ok)
    /\ ops' = ops (-) SetToBag({o})
    /\ UNCHANGED sessionVars
    /\ UNCHANGED <<isInitializedRef, reconnectTimers, sent, published, now, mqttClientId, pureVars>>

(* ======================================================================= *)
(* hooks/useAlertMqtt.ts                                                   *)
(* ======================================================================= *)

\* parametersToCheck, in the order of the loop
parametersToCheck ==
    <<"vibrationRms", "motorSurfaceTemp", "bearingTemp", "motorCurrent",
      "gridVoltage", "powerFactor", "dustDensity">>

ReadingKeys == {"healthIndex"} \cup {parametersToCheck[k] : k \in 1..Len(parametersToCheck)}

\* the default threshold table, in hundredths: the value from which the band
\* is Warning and the value from which it is Critical
ThresholdTable ==
    [vibrationRms     |-> [normal |-> 280,  critical |-> 450,  lowIsBad |-> FALSE],
     motorSurfaceTemp |-> [normal |-> 7000, critical |-> 8500, lowIsBad |-> FALSE],
     bearingTemp      |-> [normal |-> 6500, critical |-> 8000, lowIsBad |-> FALSE],
     powerFactor      |-> [normal |-> 85,   critical |-> 70,   lowIsBad |-> TRUE]]

\* getStatusColor where a value on a bound belongs to the better band
getStatusColor_Exclusive(value, type) ==
    IF type \notin DOMAIN ThresholdTable THEN "normal"
    ELSE LET th == ThresholdTable[type]
         IN  IF th.lowIsBad
               THEN IF value >= th.normal THEN "normal"
                    ELSE IF value >= th.critical THEN "warning" ELSE "critical"
               ELSE IF value <= th.normal THEN "normal"
                    ELSE IF value <= th.critical THEN "warning" ELSE "critical"

\* getStatusColor(value, type).level of lib/thresholds
getStatusColor(value, type) ==
    IF type \notin DOMAIN ThresholdTable THEN "normal"
    ELSE LET th == ThresholdTable[type]
         IN  IF th.lowIsBad
               THEN IF value > th.normal THEN "normal"
                    ELSE IF value > th.critical THEN "warning" ELSE "critical"
               ELSE IF value < th.normal THEN "normal"
                    ELSE IF value < th.critical THEN "warning" ELSE "critical"

\* the loop where a Critical parameter replaces only an unset most-severe
\* parameter, so that a critical health index stays
RECURSIVE checkParameters_KeepHealth(_, _, _)
checkParameters_KeepHealth(data, k, acc) ==
    IF k > Len(parametersToCheck) THEN acc
    ELSE LET type == parametersToCheck[k]
             value == data[type]
         IN  IF value = Absent THEN checkParameters_KeepHealth(data, k + 1, acc)
             ELSE IF getStatusColor(value, type) = "critical"
               THEN checkParameters_KeepHealth(data, k + 1,
                      [reasons |-> Append(acc.reasons, type),
                       mostSevereParameter |->
                           IF acc.mostSevereParameter = "undefined"
                             THEN type ELSE acc.mostSevereParameter,
                       mostSevereValue |->
                           IF acc.mostSevereParameter = "undefined"
                             THEN value ELSE acc.mostSevereValue])
             ELSE checkParameters_KeepHealth(data, k + 1, acc)

\* the loop where every Critical parameter replaces the most-severe parameter
RECURSIVE checkParameters_LastWins(_, _, _)
checkParameters_LastWins(data, k, acc) ==
    IF k > Len(parametersToCheck) THEN acc
    ELSE LET type == parametersToCheck[k]
             value == data[type]
         IN  IF value = Absent THEN checkParameters_LastWins(data, k + 1, acc)
             ELSE IF getStatusColor(value, type) = "critical"
               THEN checkParameters_LastWins(data, k + 1,
                      [reasons |-> Append(acc.reasons, type),
                       mostSevereParameter |->
                           IF TRUE
                             THEN type ELSE acc.mostSevereParameter,
                       mostSevereValue |->
                           IF TRUE
                             THEN value ELSE acc.mostSevereValue])
             ELSE checkParameters_LastWins(data, k + 1, acc)

\* the loop where an absent field is read as 0 instead of being skipped
RECURSIVE checkParameters_ZeroDefault(_, _, _)
checkParameters_ZeroDefault(data, k, acc) ==
    IF k > Len(parametersToCheck) THEN acc
    ELSE LET type == parametersToCheck[k]
             value == IF data[type] = Absent THEN 0 ELSE data[type]
         IN  IF FALSE THEN checkParameters_ZeroDefault(data, k + 1, acc)
             ELSE IF getStatusColor(value, type) = "critical"
               THEN checkParameters_ZeroDefault(data, k + 1,
                      [reasons |-> Append(acc.reasons, type),
                       mostSevereParameter |->
                           IF acc.mostSevereParameter \in {"undefined", "healthIndex"}
                             THEN type ELSE acc.mostSevereParameter,
                       mostSevereValue |->
                           IF acc.mostSevereParameter \in {"undefined", "healthIndex"}
                             THEN value ELSE acc.mostSevereValue])
             ELSE checkParameters_ZeroDefault(data, k + 1, acc)

\* the loop of detectCriticalConditions over parametersToCheck[k..]
RECURSIVE checkParameters(_, _, _)
checkParameters(data, k, acc) ==
    IF k > Len(parametersToCheck) THEN acc
    ELSE LET type == parametersToCheck[k]
             value == data[type]
         IN  IF value = Absent THEN checkParameters(data, k + 1, acc)
             ELSE IF getStatusColor(value, type) = "critical"
               THEN checkParameters(data, k + 1,
                      [reasons |-> Append(acc.reasons, type),
                       mostSevereParameter |->
                           IF acc.mostSevereParameter \in {"undefined", "healthIndex"}
                             THEN type ELSE acc.mostSevereParameter,
                       mostSevereValue |->
                           IF acc.mostSevereParameter \in {"undefined", "healthIndex"}
                             THEN value ELSE acc.mostSevereValue])
             ELSE checkParameters(data, k + 1, acc)

\* detectCriticalConditions where the loop records the parameter but not its
\* value: the value reported is the one of the health check
detectCriticalConditions_HealthValue(data, healthThreshold) ==
    LET first == IF data["healthIndex"] # Absent /\ data["healthIndex"] < healthThreshold
                   THEN [reasons |-> <<"healthIndex">>,
                         mostSevereParameter |-> "healthIndex",
                         mostSevereValue |-> data["healthIndex"]]
                   ELSE [reasons |-> <<>>,
                         mostSevereParameter |-> "undefined",
                         mostSevereValue |-> Absent]
        r == checkParameters(data, 1, first)
    IN  [hasCritical |-> Len(r.reasons) > 0,
         reasons |-> r.reasons,
         mostSevereParameter |-> r.mostSevereParameter,
         mostSevereValue |-> first.mostSevereValue]

detectCriticalConditions(data, healthThreshold) ==
    LET first == IF data["healthIndex"] # Absent /\ data["healthIndex"] < healthThreshold
                   THEN [reasons |-> <<"healthIndex">>,
                         mostSevereParameter |-> "healthIndex",
                         mostSevereValue |-> data["healthIndex"]]
                   ELSE [reasons |-> <<>>,
                         mostSevereParameter |-> "undefined",
                         mostSevereValue |-> Absent]
        r == checkParameters(data, 1, first)
    IN  [hasCritical |-> Len(r.reasons) > 0,
         reasons |-> r.reasons,
         mostSevereParameter |-> r.mostSevereParameter,
         mostSevereValue |-> r.mostSevereValue]

EmptyReading == [k \in ReadingKeys |-> Absent]

\* the readings the model feeds to the hook: three without and two with a
\* Critical condition, so that the alert effect, which runs when a field of the
\* reading changes, can run any number of times for either kind
Readings ==
    { EmptyReading,
      [EmptyReading EXCEPT !["vibrationRms"] = 230, !["motorSurfaceTemp"] = 6000],
      [EmptyReading EXCEPT !["vibrationRms"] = 500, !["motorSurfaceTemp"] = 6000],
      [EmptyReading EXCEPT !["healthIndex"] = 9000, !["vibrationRms"] = 300],
      [EmptyReading EXCEPT !["healthIndex"] = 5000] }

\* the readings given to detectCriticalConditions on its own: every field
\* absent or present, below, on and above the bounds of the threshold table
DetectReadings ==
    { [healthIndex |-> h, vibrationRms |-> v, motorSurfaceTemp |-> m, bearingTemp |-> b,
       motorCurrent |-> c, gridVoltage |-> Absent, powerFactor |-> f, dustDensity |-> d] :
        h \in {Absent, 5000, 6000},
        v \in {Absent, 280, 450, 500},
        m \in {Absent, 6000, 7000, 8500},
        b \in {Absent, 6500, 8000},
        c \in {Absent, 500},
        f \in {Absent, 0, 70, 85, 90},
        d \in {Absent, 3500} }

\* detectCriticalConditions(data, criticalHealthThreshold) for the reading detectData
Detect ==
    /\ detectResult = NoResult
    /\ detectResult' = detectCriticalConditions(detectData, criticalHealthThresholdScaled)
    /\ UNCHANGED <<sessionVars, lastAlertTimeRef, wasInCriticalRef, isInitializedRef,
                   reconnectTimers, ops, sent, published, now, mqttClientId, detectData, diagVars,
                   routeVars>>

\* the mount effect with enabled = true: connectMqtt once per hook
MountHook ==
    /\ ~isInitializedRef
    /\ isInitializedRef' = TRUE
    /\ connectMqtt(CbMount, CbMessage)
    /\ UNCHANGED <<lastAlertTimeRef, wasInCriticalRef, reconnectTimers, ops, sent, published, now,
                   pureVars>>

\* handleBeforeUnload
BeforeUnload ==
    /\ client # NoClient
    /\ disconnectMqtt
    /\ UNCHANGED hookVars

\* reconnect(): sessionStorage.removeItem('mqtt_client_id') and
\* disconnectMqtt() now, connectMqtt(cb) from a 1000 ms timer
reconnect ==
    /\ reconnectTimers < MaxReconnectTimers
    /\ mqttClientId' = NoId
    /\ disconnectMqtt
    /\ reconnectTimers' = reconnectTimers + 1
    /\ UNCHANGED <<lastAlertTimeRef, wasInCriticalRef, isInitializedRef, ops, sent, published, now,
                   pureVars>>

ReconnectTimer ==
    /\ reconnectTimers > 0
    /\ reconnectTimers' = reconnectTimers - 1
    /\ connectMqtt(CbReconnect, NoCb)
    /\ isInitializedRef' = TRUE
    /\ UNCHANGED <<lastAlertTimeRef, wasInCriticalRef, ops, sent, published, now, pureVars>>

\* checkAndSendAlert that sends OFF for every reading without a Critical
\* condition, whatever wasInCriticalRef is
checkAndSendAlert_OffWithoutLatch(data) ==
    LET criticalConditions == detectCriticalConditions(data, criticalHealthThresholdScaled)
    IN  /\ IF criticalConditions.hasCritical
             THEN IF now - lastAlertTimeRef < alertCooldown
                    THEN UNCHANGED <<sessionVars, ops, sent, published, lastAlertTimeRef,
                                     wasInCriticalRef, mqttClientId>>
                    ELSE sendAlertToPLC("auto", now,
                                        criticalConditions.mostSevereParameter,
                                        criticalConditions.mostSevereValue)
           ELSE sendOffSignalToPLC("auto") /\ UNCHANGED <<sessionVars, mqttClientId>>
        /\ UNCHANGED <<isInitializedRef, reconnectTimers, now, diagVars, routeVars>>

\* the alert effect: checkAndSendAlert() for a reading that arrived
checkAndSendAlert(data) ==
    LET criticalConditions == detectCriticalConditions(data, criticalHealthThresholdScaled)
    IN  /\ IF criticalConditions.hasCritical
             THEN IF now - lastAlertTimeRef < alertCooldown
                    THEN UNCHANGED <<sessionVars, ops, sent, published, lastAlertTimeRef,
                                     wasInCriticalRef, mqttClientId>>
                    ELSE sendAlertToPLC("auto", now,
                                        criticalConditions.mostSevereParameter,
                                        criticalConditions.mostSevereValue)
           ELSE IF wasInCriticalRef
             THEN sendOffSignalToPLC("auto") /\ UNCHANGED <<sessionVars, mqttClientId>>
           ELSE UNCHANGED <<sessionVars, ops, sent, published, lastAlertTimeRef, wasInCriticalRef,
                            mqttClientId>>
        /\ UNCHANGED <<isInitializedRef, reconnectTimers, now, diagVars, routeVars>>

\* the alert effect runs for a reading that arrived; the reading is not kept
Evaluate == \E data \in Readings : checkAndSendAlert(data) /\ UNCHANGED detectVars

\* the alert effect runs for a reading that arrived; the reading and what
\* detectCriticalConditions returned for it are kept in detectData and
\* detectResult
EvaluateReading ==
    \E data \in Readings :
        /\ checkAndSendAlert(data)
        /\ detectData' = data
        /\ detectResult' = detectCriticalConditions(data, criticalHealthThresholdScaled)

manualSendAlert ==
    /\ sendAlertToPLC("manual", 0, "MANUAL_TRIGGER", Absent)
    /\ UNCHANGED <<isInitializedRef, reconnectTimers, now, pureVars>>

manualSendOff ==
    /\ sendOffSignalToPLC("manual")
    /\ UNCHANGED sessionVars
    /\ UNCHANGED <<isInitializedRef, reconnectTimers, now, mqttClientId, pureVars>>

CustomCommand ==
    /\ sendCustomCommand
    /\ UNCHANGED sessionVars
    /\ UNCHANGED <<isInitializedRef, reconnectTimers, now, mqttClientId, pureVars>>

\* time passes
Tick ==
    /\ now + TickStep <= StartNow + MaxTicks * TickStep
    /\ now' = now + TickStep
    /\ UNCHANGED sessionVars
    /\ UNCHANGED <<lastAlertTimeRef, wasInCriticalRef, isInitializedRef, reconnectTimers,
                   ops, sent, published, mqttClientId, pureVars>>

\* events of the mqtt.js client objects
TransportEvent(cap) ==
    \E c \in ClientIds :
        \/ OnConnect(c)
        \/ OnError(c)
        \/ OnClose(c)
        \/ OnOffline(c)
        \/ OnReconnect(c, cap)

EndEvent == \E c \in ClientIds : EndDone(c)

AlertTimerFires == \E o \in Pending : AlertTimer(o)

PublishAck == \E o \in Pending : PublishCallback(o, TRUE)

\* the session module with the callers of connectMqtt and disconnectMqtt and
\* the transport; nothing is published and the clock stands still
NextSession ==
    \/ MountHook
    \/ BeforeUnload
    \/ reconnect
    \/ ReconnectTimer
    \/ TransportEvent(MaxAttempts)
    \/ EndEvent

SpecSession == Init /\ [][NextSession]_vars

\* the same callers with a transport that connects and does not drop
ConnectEvent == \E c \in ClientIds : OnConnect(c) \/ OnError(c)

NextConnect ==
    \/ MountHook
    \/ BeforeUnload
    \/ reconnect
    \/ ReconnectTimer
    \/ ConnectEvent
    \/ EndEvent

SpecConnect == Init /\ [][NextConnect]_vars

\* the three publishing functions called directly while the session is set
\* up, drops and reconnects
NextPublish ==
    \/ MountHook
    \/ manualSendAlert
    \/ manualSendOff
    \/ CustomCommand
    \/ TransportEvent(MaxAttemptsAlert)
    \/ AlertTimerFires
    \/ PublishAck

SpecPublish == Init /\ [][NextPublish]_vars

\* the alert dispatcher: readings arrive while time passes, the operator may
\* use the manual buttons, the transport connects, drops and reconnects
NextAlert ==
    \/ MountHook
    \/ Evaluate
    \/ manualSendAlert
    \/ manualSendOff
    \/ Tick
    \/ TransportEvent(MaxAttemptsAlert)
    \/ AlertTimerFires
    \/ PublishAck

SpecAlert == Init /\ [][NextAlert]_vars

\* the commands to the PLC: readings arrive while time passes; the transport
\* connects and stays connected, the manual buttons are not used
NextProtocol ==
    \/ MountHook
    \/ Evaluate
    \/ Tick
    \/ ConnectEvent
    \/ AlertTimerFires
    \/ PublishAck

SpecProtocol == Init /\ [][NextProtocol]_vars

\* the hook with what may run between two evaluations: the manual buttons,
\* reconnect() with its disconnectMqtt and its timer's connectMqtt, and the
\* events of a transport that connects; the clock stands still.  The clients
\* created, the reconnect timers and the pending promises together stay
\* within MaxLoad.
NextFrame ==
    /\ \/ MountHook
       \/ Evaluate
       \/ manualSendAlert
       \/ manualSendOff
       \/ reconnect
       \/ ReconnectTimer
       \/ ConnectEvent
       \/ EndEvent
       \/ AlertTimerFires
       \/ PublishAck
    /\ created' + reconnectTimers' + BagCardinality(ops') <= MaxLoad

SpecFrame == Init /\ [][NextFrame]_vars

\* the alert dispatcher on its own, within one cooldown window: readings
\* arrive while the transport connects, drops and reconnects; the manual
\* buttons are not used
NextDispatch ==
    \/ MountHook
    \/ Evaluate
    \/ TransportEvent(MaxAttemptsAlert)
    \/ AlertTimerFires
    \/ PublishAck

SpecDispatch == Init /\ [][NextDispatch]_vars

\* the callback of client.publish is called with an error: the client was
\* ended with the message outstanding
PublishError == \E o \in Pending : PublishCallback(o, FALSE)

\* the alert dispatcher with publishes that fail: readings arrive while the
\* transport connects and while disconnectMqtt ends the client with commands
\* outstanding.  The clients created and the pending promises together stay
\* within MaxLoad.
NextFailure ==
    /\ \/ MountHook
       \/ Evaluate
       \/ BeforeUnload
       \/ ConnectEvent
       \/ EndEvent
       \/ AlertTimerFires
       \/ PublishAck
       \/ PublishError
    /\ created' + reconnectTimers' + BagCardinality(ops') <= MaxLoad

SpecFailure == Init /\ [][NextFailure]_vars

\* the latch and the readings: the transport connects and does not drop,
\* every publish is acknowledged, and each reading evaluated is kept; readings
\* arrive in any order with the acknowledgments while time passes
NextLatch ==
    \/ MountHook
    \/ EvaluateReading
    \/ Tick
    \/ ConnectEvent
    \/ PublishAck

SpecLatch == Init /\ [][NextLatch]_vars

SubscribeEvent ==
    \E c \in ClientIds, err \in BOOLEAN :
        \E i \in 1..Len(mq[c].subs) : SubscribeCallback(c, i, err)

\* the session with its callers and the subscribe callbacks of the connect
\* handler, under the same load
NextSubscribe ==
    /\ \/ MountHook \/ BeforeUnload \/ reconnect \/ ReconnectTimer
       \/ TransportEvent(MaxAttemptsAlert) \/ EndEvent \/ SubscribeEvent
    /\ created' + reconnectTimers' + BagCardinality(ops') <= MaxLoad

SpecSubscribe == Init /\ [][NextSubscribe]_vars

\* the life of the session: the callers of connectMqtt and disconnectMqtt
\* with a transport that connects, drops and reconnects.  The clients created
\* and the reconnect timers together stay within MaxLoad.
NextLifecycle ==
    /\ \/ MountHook
       \/ BeforeUnload
       \/ reconnect
       \/ ReconnectTimer
       \/ TransportEvent(MaxAttemptsAlert)
       \/ EndEvent
    /\ created' + reconnectTimers' + BagCardinality(ops') <= MaxLoad

SpecLifecycle == Init /\ [][NextLifecycle]_vars

\* detectCriticalConditions applied to each reading of DetectReadings
InitDetect ==
    /\ InitModule
    /\ detectData \in DetectReadings
    /\ detectResult = NoResult
    /\ InitDiagVars
    /\ InitRouteVars

\* the expert system of the AI center: runDiagnosis for each set of answers
InitDiagnosis ==
    /\ InitModule
    /\ InitDetectVars
    /\ answers \in AnswerSets
    /\ cfComputed = [r \in 1..Len(rules) |-> NotRun]
    /\ results = <<>>
    /\ conclusion = NoConclusion
    /\ InitRouteVars

NextDiagnosis == runDiagnosis

SpecDiagnosis == InitDiagnosis /\ [][NextDiagnosis]_vars

\* the prediction route: POST for each request and each answer of the ML
\* service
InitPredict ==
    /\ InitModule
    /\ InitDetectVars
    /\ InitDiagVars
    /\ predictRequest \in PredictRequests
    /\ mlService \in MlAnswers
    /\ predictResponse = NoResponse

NextPredict == POST

SpecPredict == InitPredict /\ [][NextPredict]_vars

\* the AI center page in use: answers are given and changed, and the
\* diagnosis is run again
AnswerGiven == \E sid \in SymptomIds, option \in UserAnswers : setAnswer(sid, option)

NextAnswer ==
    \/ AnswerGiven
    \/ runDiagnosis

SpecAnswer == Init /\ [][NextAnswer]_vars

NextDetect == Detect

SpecDetect == InitDetect /\ [][NextDetect]_vars

(* ======================================================================= *)
(* Properties                                                              *)
(* ======================================================================= *)

\* number of commands cmd of origin by handed to the transport and not yet
\* acknowledged, in the bag b of pending promises
InFlight(b, cmd, by) ==
    Copies({o \in BagToSet(b) : o.pc = "ack" /\ o.cmd = cmd /\ o.by = by}, b)

\* this step hands an automatic ON to the transport
AutoOnEmitted == InFlight(ops', "ON", "auto") > InFlight(ops, "ON", "auto")

AutoOn == [cmd |-> "ON", by |-> "auto"]
AutoOff == [cmd |-> "OFF", by |-> "auto"]

\* C1: latch property - an evaluation that finds wasInCriticalRef already true
\* emits no ON, however much time has passed since the last alert.
C1_LatchSuppressesOn ==
    [][(Evaluate /\ wasInCriticalRef) => ~AutoOnEmitted]_vars

\* C2: cooldown property - an automatic ON is in flight only for an evaluation
\* made at least alertCooldown after the evaluation of the last acknowledged
\* alert, and two automatic ONs in flight come from evaluations at least
\* alertCooldown apart: of two Critical evaluations less than a cooldown
\* apart only the first emits.
C2_OneOnPerCooldownWindow ==
    \A o \in Pending :
        (o.pc = "ack" /\ o.cmd = "ON" /\ o.by = "auto") =>
            /\ o.t - lastAlertTimeRef >= alertCooldown
            /\ CopiesIn(o, ops) = 1
            /\ \A p \in Pending \ {o} :
                   (p.pc = "ack" /\ p.cmd = "ON" /\ p.by = "auto") =>
                       (o.t - p.t >= alertCooldown \/ p.t - o.t >= alertCooldown)

\* C3: recovery property - a recovery emits exactly one SendOff: the
\* dispatcher never hands two OFF commands in a row to the transport.
C3_OneOffPerRecovery ==
    \A k \in 1..(Len(sent) - 1) : ~(sent[k] = AutoOff /\ sent[k + 1] = AutoOff)

\* C4: AlertState invariant - while wasInCriticalRef is true an ON has been
\* published and no OFF has been published after it.
C4_LatchImpliesOnOutstanding ==
    wasInCriticalRef => (Len(sent) > 0 /\ sent[Len(sent)].cmd = "ON")

\* C5: check-then-act is atomic - interleaved evaluations never have more than
\* one automatic ON, nor more than one automatic OFF, awaiting its
\* acknowledgment.
C5_AtomicCheckThenAct ==
    /\ InFlight(ops, "ON", "auto") <= 1
    /\ InFlight(ops, "OFF", "auto") <= 1

\* C6: at most one transport - two clients on which end() has not been called
\* never coexist.
C6_AtMostOneTransport ==
    Cardinality({c \in ClientIds : Live(c)}) <= 1

\* C7: singleton property - a connectMqtt call made while the session is
\* Connected returns the existing client, creates no transport, leaves
\* connectionAttempts unchanged and tells the status callback true.
C7_SingletonWhenConnected ==
    [][(Connected /\ ~isCleaningUp /\ (MountHook \/ ReconnectTimer)) =>
          /\ lastConnect' = "connected"
          /\ client' = client
          /\ created' = created
          /\ mq' = mq
          /\ connectionAttempts' = connectionAttempts
          /\ onConnectionChange' # NoCb
          /\ status'[onConnectionChange'] = "up"]_vars

C7_Witness ==
    /\ lastConnect = "connected"
    /\ Connected
    /\ created = 1
    /\ connectionAttempts = 0
    /\ status[onConnectionChange] = "up"

\* C8: when the broker acknowledges the attempt of the module-level client,
\* every status callback that was passed to connectMqtt for that client is
\* told true.
C8_AllAttachedNotified ==
    [][(client # NoClient /\ mq[client].st = "connecting" /\ mq'[client].st = "connected")
          => \A cb \in attached : status'[cb] = "up"]_vars

\* C9: bounded reconnect - once connectionAttempts exceeds
\* MAX_RECONNECT_ATTEMPTS no further reconnect attempt is made.
C9_NoRetryBeyondCeiling ==
    [][connectionAttempts > MAX_RECONNECT_ATTEMPTS =>
          \A c \in ClientIds : ~(mq[c].st = "closed" /\ mq'[c].st = "connecting")]_vars

\* C10 (as claimed): a command is handed to the transport only for a request
\* that found the client connected; a request made while not connected is
\* never published later.
C10_UnconnectedNeverPublished ==
    \A o \in Pending : o.pc = "ack" => ~o.waited

\* C10 (amended): sendOffSignalToPLC and sendCustomCommand called while not
\* connected publish nothing and leave no promise pending; sendAlertToPLC
\* called while not connected publishes nothing at the call and keeps one
\* promise waiting for its 3000 ms timer; when the timer fires the ON is
\* published if the client is connected then, and otherwise the promise is
\* settled without a publish.  Only an ON is ever published for a request made
\* while not connected.
C10_UnconnectedPublish ==
    [][/\ ((manualSendOff \/ CustomCommand) /\ ~Connected) => UNCHANGED <<ops, sent>>
       /\ (manualSendAlert /\ ~Connected) =>
              /\ sent' = sent
              /\ InFlight(ops', "ON", "manual") = InFlight(ops, "ON", "manual")
              /\ BagCardinality(ops') = BagCardinality(ops) + 1
       /\ \A o \in Pending :
              (AlertTimer(o) /\ ~Connected) =>
                  /\ sent' = sent
                  /\ ops' = ops (-) SetToBag({o})
       /\ \A o \in BagToSet(ops') : (o.pc = "ack" /\ o.waited) => o.cmd = "ON"]_vars

C10_Witness ==
    \E o \in Pending : o.pc = "ack" /\ o.waited /\ o.cmd = "ON" /\ Connected

\* C11: submission order - a command handed to the transport was not overtaken:
\* no command requested after it was handed to the transport before it.
C11_SubmissionOrder ==
    \A o \in Pending : o.pc = "ack" => ~o.overtaken

\* C12: disconnectMqtt unregisters the callbacks - once disconnectMqtt has been
\* called on a client (isCleaningUp), no status callback that was registered
\* for that client before the call is invoked any more.
C12_NoCallbackAfterDisconnect ==
    [][isCleaningUp => \A cb \in attached : status'[cb] = status[cb]]_vars

\* C13: disconnectMqtt leads to Disconnected - when the teardown completes
\* client = null, isConnecting = false and isCleaningUp = false, and while the
\* session is Disconnected (no client, no cleanup in progress) no transport
\* makes an automatic reconnect attempt.
C13_DisconnectIsTerminal ==
    [][/\ (\E c \in ClientIds : EndDone(c)) =>
              (client' = NoClient /\ ~isConnecting' /\ ~isCleaningUp')
       /\ (client = NoClient /\ ~isCleaningUp) =>
              \A c \in ClientIds : ~(mq[c].st = "closed" /\ mq'[c].st = "connecting")]_vars

\* C14: stable identity - every client created in the browsing session, and
\* so every connection attempt, uses the same client identifier.
C14_StableClientId ==
    \A c, d \in ClientIds :
        (mq[c].st # "none" /\ mq[d].st # "none") => mq[c].clientId = mq[d].clientId

\* the health index of the reading d is present and below the threshold
HealthCritical(d) ==
    d["healthIndex"] # Absent /\ d["healthIndex"] < criticalHealthThresholdScaled

\* the k-th parameter of the evaluation order is present in d and Critical
CriticalAt(d, k) ==
    /\ d[parametersToCheck[k]] # Absent
    /\ getStatusColor(d[parametersToCheck[k]], parametersToCheck[k]) = "critical"

CriticalIndexes(d) == {k \in 1..Len(parametersToCheck) : CriticalAt(d, k)}

\* the first Critical parameter of d in the evaluation order
FirstCritical(d) ==
    parametersToCheck[CHOOSE k \in CriticalIndexes(d) : \A j \in CriticalIndexes(d) : k <= j]

Detected == detectResult # NoResult

\* C15 (as claimed): whenever the health index is critical the most-severe
\* parameter reported is healthIndex, with the health-index value.
C15_HealthIndexWins ==
    (Detected /\ HealthCritical(detectData)) =>
        /\ detectResult.mostSevereParameter = "healthIndex"
        /\ detectResult.mostSevereValue = detectData["healthIndex"]

\* C15 (amended): when the health index is critical, healthIndex is reported
\* as the most-severe parameter only if no individual parameter is Critical;
\* otherwise the first Critical parameter of the evaluation order is reported
\* with its value.
C15_ParameterReplacesHealthIndex ==
    (Detected /\ HealthCritical(detectData)) =>
        IF CriticalIndexes(detectData) = {}
          THEN /\ detectResult.mostSevereParameter = "healthIndex"
               /\ detectResult.mostSevereValue = detectData["healthIndex"]
          ELSE /\ detectResult.mostSevereParameter = FirstCritical(detectData)
               /\ detectResult.mostSevereValue = detectData[FirstCritical(detectData)]

C15_Witness ==
    /\ Detected
    /\ HealthCritical(detectData)
    /\ Cardinality(CriticalIndexes(detectData)) >= 2
    /\ detectResult.mostSevereParameter = "vibrationRms"
    /\ detectResult.reasons[1] = "healthIndex"

\* C16: with a health index that is not critical, the most-severe parameter
\* and value are those of the first Critical parameter of the evaluation
\* order, however many Critical parameters follow it.
C16_FirstCriticalParameterWins ==
    (Detected /\ ~HealthCritical(detectData) /\ CriticalIndexes(detectData) # {}) =>
        /\ detectResult.mostSevereParameter = FirstCritical(detectData)
        /\ detectResult.mostSevereValue = detectData[FirstCritical(detectData)]
        /\ \A i \in 1..Len(detectResult.reasons) :
               \E k \in CriticalIndexes(detectData) :
                   detectResult.reasons[i] = parametersToCheck[k]

C16_Witness ==
    /\ Detected
    /\ ~HealthCritical(detectData)
    /\ Cardinality(CriticalIndexes(detectData)) >= 3
    /\ detectResult.mostSevereParameter = "motorSurfaceTemp"
    /\ detectResult.mostSevereValue = 8500

\* C17: an absent field is skipped - no reason and no most-severe parameter
\* names an absent field, hasCritical is decided by the present fields alone,
\* and a reading without fields has no critical condition.
C17_AbsentIsSkipped ==
    Detected =>
        /\ \A i \in 1..Len(detectResult.reasons) :
               detectData[detectResult.reasons[i]] # Absent
        /\ detectResult.mostSevereParameter # "undefined" =>
               /\ detectData[detectResult.mostSevereParameter] # Absent
               /\ detectResult.mostSevereValue = detectData[detectResult.mostSevereParameter]
        /\ detectResult.hasCritical =
               (HealthCritical(detectData) \/ CriticalIndexes(detectData) # {})
        /\ (\A k \in ReadingKeys : detectData[k] = Absent) => ~detectResult.hasCritical

C17_Witness ==
    /\ Detected
    /\ detectData["powerFactor"] = Absent
    /\ detectData["healthIndex"] = Absent
    /\ detectData["vibrationRms"] = 280
    /\ ~detectResult.hasCritical
    /\ detectResult.mostSevereParameter = "undefined"

\* the reading {vibrationRms: 5.0, motorSurfaceTemp: 60}
ScenarioReading ==
    [EmptyReading EXCEPT !["vibrationRms"] = 500, !["motorSurfaceTemp"] = 6000]

\* the ON handed to the transport for ScenarioReading evaluated now
ScenarioOn ==
    [pc |-> "ack", cmd |-> "ON", by |-> "auto", t |-> now, cl |-> client,
     waited |-> FALSE, overtaken |-> FALSE,
     alertType |-> "vibrationRms", alertValue |-> 500]

\* C18: end-to-end scenario - with a Connected session, the latch clear and
\* the cooldown elapsed, evaluating {vibrationRms: 5.0, motorSurfaceTemp: 60}
\* finds vibration Critical and surface temperature Normal and hands one ON
\* to the transport whose payload names vibrationRms and the value 5.0.
C18_ScenarioEmitsVibrationOn ==
    [][(/\ checkAndSendAlert(ScenarioReading)
        /\ Connected
        /\ ~wasInCriticalRef
        /\ now - lastAlertTimeRef >= alertCooldown
        /\ BagCardinality(ops) < MaxOps) =>
          /\ getStatusColor(ScenarioReading["vibrationRms"], "vibrationRms") = "critical"
          /\ getStatusColor(ScenarioReading["motorSurfaceTemp"], "motorSurfaceTemp") = "normal"
          /\ CopiesIn(ScenarioOn, ops') = CopiesIn(ScenarioOn, ops) + 1
          /\ BagCardinality(ops') = BagCardinality(ops) + 1
          /\ sent' = Publish("ON", "auto")]_vars

C18_Witness ==
    /\ Connected
    /\ ~wasInCriticalRef
    /\ now - lastAlertTimeRef >= alertCooldown
    /\ \E o \in Pending : o = ScenarioOn
    /\ Len(sent) > 0
    /\ sent[Len(sent)] = AutoOn

\* the parameter p is among the reasons of the detection result
InReasons(p) == \E i \in 1..Len(detectResult.reasons) : detectResult.reasons[i] = p

Contributions(r) ==
    {fuzzyLevelToValue(answers[rules[r].symptoms[i]]) * expertCFOf(rules[r].symptoms[i]) :
        i \in {j \in 1..Len(rules[r].symptoms) : answers[rules[r].symptoms[j]] # "undefined"}}

SetMax(S) == CHOOSE m \in S : \A x \in S : x <= m
SetMin(S) == CHOOSE m \in S : \A x \in S : m <= x

DiagnosisRun == \A r \in 1..Len(rules) : cfComputed[r] # NotRun

\* C20: certainty-factor combination - after runDiagnosis, for every rule with
\* an answered symptom the computed rule CF is the maximum (OR) or the minimum
\* (AND) of its contributions, and the result emitted for the rule carries
\* that CF to two decimals; answers Yes/Yes with expert CFs 0.8/0.6 give 0.6
\* for the AND rule and 0.8 for the OR rule.
C20_RuleCfIsMaxOrMin ==
    DiagnosisRun =>
        /\ \A r \in 1..Len(rules) :
               Contributions(r) # {} =>
                   /\ cfComputed[r] = IF rules[r].operator = "OR"
                                        THEN SetMax(Contributions(r))
                                        ELSE SetMin(Contributions(r))
                   /\ \A i \in 1..Len(results) :
                          results[i].id = rules[r].id =>
                              /\ results[i].cfRule * 100 - cfComputed[r] <= 50
                              /\ cfComputed[r] - results[i].cfRule * 100 <= 50
        /\ (answers[1] = "Yes" /\ answers[2] = "Yes") =>
               /\ cfComputed[1] = 6000
               /\ cfComputed[2] = 8000
               /\ \E i \in 1..Len(results) : results[i].id = "R1" /\ results[i].cfRule = 60
               /\ \E i \in 1..Len(results) : results[i].id = "R2" /\ results[i].cfRule = 80

C20_Witness ==
    /\ DiagnosisRun
    /\ answers[1] = "Yes"
    /\ answers[2] = "Yes"
    /\ answers[3] = "Sometimes"
    /\ Len(results) >= 3
    /\ results[1] = [id |-> "R1", level |-> "A", cfRule |-> 60]
    /\ results[2] = [id |-> "R2", level |-> "B", cfRule |-> 80]
    /\ cfComputed[3] = 4250

\* the positions of the symptoms of the rule r that have an answer
AnsweredOf(r) ==
    {j \in 1..Len(rules[r].symptoms) : answers[rules[r].symptoms[j]] # "undefined"}

Emitted(r) == \E i \in 1..Len(results) : results[i].id = rules[r].id

\* C21: a symptom without an answer is left out of a rule's evaluation and is
\* not counted as No - after runDiagnosis an AND rule of which only some
\* symptoms are answered has the minimum of the contributions of the answered
\* symptoms as its CF and is emitted when that minimum is positive, and a rule
\* none of whose symptoms is answered has no CF and no result.
C21_UnansweredIsExcluded ==
    DiagnosisRun =>
        \A r \in 1..Len(rules) :
            /\ AnsweredOf(r) = {} => (cfComputed[r] = NoCf /\ ~Emitted(r))
            /\ ( /\ rules[r].operator = "AND"
                 /\ AnsweredOf(r) # {}
                 /\ AnsweredOf(r) # 1..Len(rules[r].symptoms) ) =>
                   /\ cfComputed[r] = SetMin(Contributions(r))
                   /\ (cfComputed[r] > 0) => Emitted(r)

\* only symptom 1 is answered: the AND rule R1 over the symptoms 1 and 2 fires
\* with 1.0 x 0.8, and the rules R4 and R5 over the symptoms 3 and 4 are left
C21_Witness ==
    /\ DiagnosisRun
    /\ answers[1] = "Yes"
    /\ answers[2] = "undefined"
    /\ answers[3] = "undefined"
    /\ answers[4] = "undefined"
    /\ answers[5] = "undefined"
    /\ cfComputed[1] = 8000
    /\ results[1] = [id |-> "R1", level |-> "A", cfRule |-> 80]
    /\ cfComputed[4] = NoCf
    /\ cfComputed[5] = NoCf
    /\ Len(results) = 2

\* a rule is in the results exactly when one of its symptoms is answered and
\* its CF is above 0
EmittedIffPositive ==
    \A r \in 1..Len(rules) :
        Emitted(r) <=> (AnsweredOf(r) # {} /\ cfComputed[r] > 0)

\* C22 (as claimed): after runDiagnosis a rule is in the results if and only
\* if it has an answered symptom and its CF is strictly above 0, and the CF
\* carried by every result is in (0, 1].
C22_EmittedCfIsPositive ==
    DiagnosisRun =>
        /\ EmittedIffPositive
        /\ \A i \in 1..Len(results) : results[i].cfRule > 0 /\ results[i].cfRule <= 100

\* C22 (amended): after runDiagnosis a rule is in the results if and only if
\* it has an answered symptom and its CF is strictly above 0; the CF carried
\* by a result is the rule CF rounded to two decimals, which is in [0, 1] and
\* is 0 exactly when the rule CF is below 0.005.
C22_EmittedIffCfPositive ==
    DiagnosisRun =>
        /\ EmittedIffPositive
        /\ \A r \in 1..Len(rules) : \A i \in 1..Len(results) :
               results[i].id = rules[r].id =>
                   /\ results[i].cfRule >= 0
                   /\ results[i].cfRule <= 100
                   /\ results[i].cfRule * 100 - cfComputed[r] <= 50
                   /\ cfComputed[r] - results[i].cfRule * 100 <= 50
                   /\ (results[i].cfRule = 0) <=> (cfComputed[r] < 50)

\* symptom 5 (expert CF 0.004) answered Yes: the rule R6 has the CF 0.004 and
\* is emitted with cfRule 0; symptom 1 answered No: R1 and R2 have the CF 0 and
\* are not emitted
C22_Witness ==
    /\ DiagnosisRun
    /\ answers[5] = "Yes"
    /\ answers[1] = "No"
    /\ answers[2] = "Yes"
    /\ cfComputed[6] = 40
    /\ cfComputed[1] = 0
    /\ ~Emitted(1)
    /\ Emitted(2)
    /\ \E i \in 1..Len(results) : results[i] = [id |-> "R6", level |-> "B", cfRule |-> 0]

\* the number of results of a level
CountLevel(l) == Cardinality({i \in 1..Len(results) : results[i].level = l})

\* the sum over the results of the level score: A = 40, B = 70, C = 100
ScoreSum == 40 * CountLevel("A") + 70 * CountLevel("B") + 100 * CountLevel("C")

\* C23: aggregate conclusion - after runDiagnosis with a non-empty result list
\* the conclusion percent is, to one decimal, the average over the results of
\* the level score (A = 40, B = 70, C = 100), and the label is Minor when the
\* average is <= 40, Moderate when it is above 40 and <= 70, Severe when it
\* is above 70.
C23_ConclusionIsAverage ==
    (DiagnosisRun /\ Len(results) > 0) =>
        LET n == Len(results) IN
        /\ conclusion # NoConclusion
        /\ 2 * (conclusion.percent * n - 10 * ScoreSum) <= n
        /\ 2 * (10 * ScoreSum - conclusion.percent * n) <= n
        /\ conclusion.label = IF ScoreSum <= 40 * n THEN "Minor"
                              ELSE IF ScoreSum <= 70 * n THEN "Moderate"
                              ELSE "Severe"

\* one result of each level: the average (40 + 70 + 100) / 3 is 70, on the
\* boundary of Moderate
C23_Witness ==
    /\ DiagnosisRun
    /\ Len(results) = 3
    /\ results[1].level = "A"
    /\ results[2].level = "B"
    /\ results[3].level = "C"
    /\ conclusion = [percent |-> 700, label |-> "Moderate"]

ZeroAnswered == \A sid \in SymptomIds : answers[sid] = "undefined"

\* C24: a run of runDiagnosis with zero answered symptoms leaves every rule
\* without a CF and sets an empty result list and a null conclusion, whatever
\* results and conclusion the page held before; the run completes (the state
\* after it is that of a finished run).
C24_NoAnswersNoResults ==
    [][(ZeroAnswered /\ runDiagnosis) =>
           /\ results' = <<>>
           /\ conclusion' = NoConclusion
           /\ \A r \in 1..Len(rules) : cfComputed'[r] = NoCf]_vars

\* the diagnosis has been run on a page without answers
C24_Witness ==
    /\ ZeroAnswered
    /\ DiagnosisRun
    /\ results = <<>>
    /\ conclusion = NoConclusion

\* the position in the rule catalog of the rule of the i-th result
RuleIndex(i) == CHOOSE r \in 1..Len(rules) : rules[r].id = results[i].id

\* the results are a subsequence of the rule catalog: every result is of a
\* rule of the catalog, with the level of that rule, and the results follow
\* one another in the order of the catalog, so that no rule has two results
CatalogOrder ==
    /\ \A i \in 1..Len(results) :
           /\ \E r \in 1..Len(rules) : rules[r].id = results[i].id
           /\ results[i].level = rules[RuleIndex(i)].level
    /\ \A i, j \in 1..Len(results) : i < j => RuleIndex(i) < RuleIndex(j)

\* C25: diagnosis is deterministic and stably ordered - every run of
\* runDiagnosis leaves results that are a subsequence of the rule catalog in
\* catalog order with at most one result for a rule, and a run that computes
\* the rule CFs of the run before it (a run on the same answers, or on answers
\* with the same contributions) leaves the results and the conclusion of that
\* run, whatever the page held. The runs are the steps that leave the answers
\* as they are: giving an answer never touches the results.
C25_DeterministicCatalogOrder ==
    [][(answers' = answers) =>
           /\ CatalogOrder'
           /\ (cfComputed' = cfComputed) =>
                  (results' = results /\ conclusion' = conclusion)]_vars

\* all five symptoms answered Yes: the results are R1, R2, R3, R4 and R6 in
\* this order (R5, of CF -0.5, is not emitted)
C25_Witness ==
    /\ DiagnosisRun
    /\ \A sid \in SymptomIds : answers[sid] = "Yes"
    /\ Len(results) = 5
    /\ results[1].id = "R1"
    /\ results[2].id = "R2"
    /\ results[3].id = "R3"
    /\ results[4].id = "R4"
    /\ results[5].id = "R6"

\* POST has answered a request whose body it could read
Answered == predictResponse # NoResponse /\ predictRequest.body = "object"

\* C26: degraded mode - when the ML service is unreachable, times out or
\* answers with a status that is not OK, the response of POST to a request it
\* could read has status 200 and success = true, the health score of
\* calculateHealthScore, mlPrediction = null, mlServiceStatus = 'unavailable'
\* and an mlServiceError that is not null; it is not the 500 response.
C26_DegradedMode ==
    (Answered /\ mlService \in MlUnreachable \cup MlNotOk) =>
        /\ predictResponse.status = 200
        /\ predictResponse.success
        /\ predictResponse.healthScore = calculateHealthScore(predictRequest.sensorData)
        /\ predictResponse.healthScore # NoHealthScore
        /\ predictResponse.mlPrediction = "null"
        /\ predictResponse.mlServiceStatus = "unavailable"
        /\ predictResponse.mlServiceError \notin {"null", "none"}

\* the request of a worn motor with two readings while the fetch times out
C26_Witness ==
    /\ predictRequest = [body |-> "object", readings |-> 2, sensorData |-> "worn"]
    /\ mlService = "timeout"
    /\ predictResponse =
           [status |-> 200, success |-> TRUE,
            healthScore |-> [score |-> 55, category |-> "At Risk"],
            mlPrediction |-> "null", mlServiceStatus |-> "unavailable",
            mlServiceError |-> "error.message"]

\* C27 (as claimed): when the ML service answers OK with a body that is not
\* JSON, is the JSON null, or is JSON without the classification or the
\* regression object, the response of POST to a request it could read is the
\* one of an unreachable service: status 200, success = true, the health
\* score, mlServiceStatus = 'unavailable'; it is not the 500 response.
C27_MalformedIsUnavailable ==
    (Answered /\ mlService \in MlMalformed) =>
        /\ predictResponse.status = 200
        /\ predictResponse.success
        /\ predictResponse.healthScore = calculateHealthScore(predictRequest.sensorData)
        /\ predictResponse.mlServiceStatus = "unavailable"

\* the identifier of a session as a string is `mechasense-web-<stamp>-<random>`:
\* the name of the application followed by the suffix that tells the sessions
\* apart; the string "mechasense-web" has no suffix
ClientIdString(id) == [name |-> "mechasense-web", suffix |-> id]

SourceString(m) == [name |-> m.source, suffix |-> NoId]

\* the command of the message last handed to client.publish
LastCmd == IF Len(sent) = 0 THEN "none" ELSE sent[Len(sent)].cmd

\* the last message is on the control topic with QoS 1 and carries W1 = 1 and
\* no W2 if it is an ON command, W2 = 1 and no W1 if it is an OFF command
SignalOfCommand ==
    LastCmd \in {"ON", "OFF"} =>
        /\ published.topic = TOPICS.PLC_CONTROL
        /\ published.topic = "PLC/CP2E/Control"
        /\ published.qos = 1
        /\ (LastCmd = "ON") => (published.W1 = 1 /\ published.W2 = Absent)
        /\ (LastCmd = "OFF") => (published.W2 = 1 /\ published.W1 = Absent)

\* C28 (as claimed): every ON and every OFF command is published on the
\* control topic with QoS 1, ON with W1 = 1 and no W2, OFF with W2 = 1 and no
\* W1, with the time of publishing in unix seconds as timestamp and with the
\* client identifier of the session that published it as source.
C28_SourceIsClientId ==
    [][(published' # published) =>
           /\ SignalOfCommand'
           /\ published'.timestamp * 1000 <= now
           /\ now < (published'.timestamp + 1) * 1000
           /\ SourceString(published') = ClientIdString(mq[client].clientId)]_vars

\* C28 (amended): every ON and every OFF command is published on the control
\* topic with QoS 1, ON with W1 = 1 and no W2, OFF with W2 = 1 and no W1, with
\* the time of publishing in unix seconds as timestamp and with the fixed
\* string "mechasense-web" as source, whatever the client identifier of the
\* session is.
C28_ControlProtocol ==
    [][(published' # published) =>
           /\ SignalOfCommand'
           /\ published'.timestamp * 1000 <= now
           /\ now < (published'.timestamp + 1) * 1000
           /\ published'.source = "mechasense-web"
           /\ SourceString(published') # ClientIdString(mq[client].clientId)]_vars

\* an automatic OFF published 15 s after the start, after an automatic ON
C28_Witness ==
    /\ Len(sent) = 2
    /\ sent[1] = AutoOn
    /\ sent[2] = AutoOff
    /\ now = StartNow + TickStep
    /\ published = [topic |-> "PLC/CP2E/Control", qos |-> 1, W1 |-> Absent, W2 |-> 1,
                    timestamp |-> 45, source |-> "mechasense-web",
                    alertType |-> "none", alertValue |-> Absent]

\* this step hands an automatic OFF to the transport
AutoOffEmitted == InFlight(ops', "OFF", "auto") > InFlight(ops, "OFF", "auto")

\* the reading has no Critical condition
NoCritical(data) ==
    ~detectCriticalConditions(data, criticalHealthThresholdScaled).hasCritical

\* C30: the automatic dispatcher hands an OFF to the transport only in an
\* evaluation of a reading without a Critical condition made while
\* wasInCriticalRef is true; such an evaluation made while connected sends the
\* OFF however short the time since the last alert is (no cooldown); an
\* evaluation of a reading without a Critical condition made while
\* wasInCriticalRef is false changes nothing.
C30_OffOnlyOnRecovery ==
    [][/\ AutoOffEmitted =>
              /\ wasInCriticalRef
              /\ \E data \in Readings : NoCritical(data) /\ checkAndSendAlert(data)
       /\ \A data \in Readings :
              (checkAndSendAlert(data) /\ NoCritical(data)) =>
                  /\ (wasInCriticalRef /\ Connected /\ BagCardinality(ops) < MaxOps) =>
                         (AutoOffEmitted /\ sent' = Publish("OFF", "auto"))
                  /\ ~wasInCriticalRef =>
                         UNCHANGED <<lastAlertTimeRef, wasInCriticalRef, ops, sent,
                                     published, sessionVars>>]_vars

\* an automatic OFF is in flight, sent in the cooldown window of the alert
\* that set the latch
C30_Witness ==
    /\ wasInCriticalRef
    /\ lastAlertTimeRef > 0
    /\ now - lastAlertTimeRef < alertCooldown
    /\ InFlight(ops, "OFF", "auto") = 1
    /\ Len(sent) > 0
    /\ sent[Len(sent)] = AutoOff
    /\ published.W2 = 1

AlertState == <<lastAlertTimeRef, wasInCriticalRef>>

\* this step settles the promise of an automatic command: the awaiting
\* checkAndSendAlert resumes
AutoSettled ==
    \E o \in BagToSet(ops) :
        /\ o.by = "auto"
        /\ o.pc = "ack"
        /\ CopiesIn(o, ops') = CopiesIn(o, ops) - 1
        /\ BagCardinality(ops') = BagCardinality(ops) - 1

\* C29: lastAlertTimeRef and wasInCriticalRef are written only by the
\* automatic evaluation - a step changes one of them only when it resumes
\* checkAndSendAlert with the acknowledgement of its command, and then no
\* session is made or ended and nothing is published; a step that adds a
\* pending promise (the manual sendAlert and sendOff, and the sending of the
\* evaluation itself), that makes or ends a session or handles an event of
\* the transport (connectMqtt, disconnectMqtt, reconnect, the broker events)
\* or that arms or fires the reconnect timer leaves both as they are.
C29_AlertStateFrame ==
    [][/\ (AlertState' # AlertState) =>
              /\ AutoSettled
              /\ UNCHANGED <<sessionVars, sent, published, reconnectTimers,
                             mqttClientId, isInitializedRef>>
       /\ ( \/ BagCardinality(ops') > BagCardinality(ops)
            \/ ops' = ops
            \/ sessionVars' # sessionVars
            \/ reconnectTimers' # reconnectTimers ) => UNCHANGED AlertState]_vars

\* the latch was set by an acknowledged automatic ON; then a manual OFF was
\* sent and acknowledged and reconnect() made a second session: both refs are
\* as the evaluation left them
C29_Witness ==
    /\ wasInCriticalRef
    /\ lastAlertTimeRef = StartNow
    /\ sent = <<AutoOn, [cmd |-> "OFF", by |-> "manual"]>>
    /\ ops = EmptyBag
    /\ created = 2
    /\ Connected

\* C37: range of the conclusion - after runDiagnosis the conclusion is null
\* exactly when no rule is emitted; otherwise its percent lies in [40, 100],
\* its label is Minor if and only if every result has the level A, and a
\* result list that holds a result of level C never has the label Minor.
C37_ConclusionRange ==
    DiagnosisRun =>
        /\ (conclusion = NoConclusion) <=> (\A r \in 1..Len(rules) : ~Emitted(r))
        /\ (conclusion = NoConclusion) <=> (results = <<>>)
        /\ conclusion # NoConclusion =>
               /\ conclusion.percent >= 400
               /\ conclusion.percent <= 1000
               /\ conclusion.label \in {"Minor", "Moderate", "Severe"}
               /\ (conclusion.label = "Minor") <=> (CountLevel("A") = Len(results))
               /\ CountLevel("C") > 0 => conclusion.label # "Minor"

\* symptom 3 alone answered Yes: R3 (level C) and R4 (level A) are emitted and
\* the conclusion is Moderate at 70 percent
C37_Witness ==
    /\ DiagnosisRun
    /\ Len(results) = 2
    /\ CountLevel("C") = 1
    /\ CountLevel("A") = 1
    /\ conclusion = [percent |-> 700, label |-> "Moderate"]

\* C38: in every reachable state of the session module isConnecting implies
\* that the module-level client is set, and no connectMqtt call has taken the
\* "Connection already in progress..." branch, which needs isConnecting with
\* a null client.
C38_ConnectingHasClient ==
    /\ isConnecting => client # NoClient
    /\ lastConnect # "inprogress"

\* connectMqtt was called while the first attempt was in progress: it found
\* the client and took the "waiting for reconnection" branch
C38_Witness ==
    /\ isConnecting
    /\ client # NoClient
    /\ mq[client].st = "connecting"
    /\ lastConnect = "waiting"

\* no callback of client.end is pending
NoEndPending == \A c \in ClientIds : mq[c].endCbs = 0

\* the value last delivered to the registered status callback is true
ToldConnected == onConnectionChange # NoCb /\ status[onConnectionChange] = "up"

\* the value last delivered to the registered status callback agrees with
\* client.connected of the module-level client, or with whether a client
\* object is connected at all
StatusAgrees ==
    \/ ToldConnected <=> Connected
    \/ ToldConnected <=> (\E c \in ClientIds : mq[c].st = "connected")

\* this step is the connect, close or offline event of a client
ConnectAck == \E c \in ClientIds : mq[c].st = "connecting" /\ mq'[c].st = "connected"
CloseEvent == \E c \in ClientIds : mq[c].st \in {"connecting", "connected"} /\ mq'[c].st = "closed"
OfflineEvent == \E c \in ClientIds : ~mq[c].reconnecting /\ mq'[c].reconnecting

\* C31 (as claimed): the status notification tracks the connection - outside
\* a teardown a connect acknowledgment delivers true and a close or offline
\* event delivers false to the registered status callback, during a teardown
\* (isCleaningUp) a close or offline event delivers nothing, and whenever no
\* end callback is pending the value last delivered to the registered status
\* callback equals client.connected.
C31_StatusTracksConnection ==
    [][/\ (ConnectAck /\ ~isCleaningUp /\ onConnectionChange # NoCb) =>
              status'[onConnectionChange] = "up"
       /\ ((CloseEvent \/ OfflineEvent) /\ ~isCleaningUp /\ onConnectionChange # NoCb) =>
              status'[onConnectionChange] = "down"
       /\ ((CloseEvent \/ OfflineEvent) /\ isCleaningUp) => status' = status
       /\ NoEndPending' => StatusAgrees']_vars

\* this step resolves the promise of an automatic command with false: the
\* 3000 ms timer of sendAlertToPLC finds the client not connected, or the
\* callback of client.publish is called with an error
ResolvesFalse(o) ==
    /\ o.by = "auto"
    /\ ops' = ops (-) SetToBag({o})
    /\ \/ o.pc = "timer"
       \/ o.pc = "ack" /\ mq[o.cl].st = "ended"

\* C32: a failed publish leaves the alert state unchanged - when the promise
\* of an automatic ON resolves false, lastAlertTimeRef and wasInCriticalRef
\* keep their values; when the promise of an automatic OFF resolves false,
\* wasInCriticalRef keeps its value; and a step that settles no promise, as
\* the automatic OFF that resolves false at once because the client is not
\* connected, leaves both.
C32_FailedPublishKeepsAlertState ==
    [][/\ \A o \in Pending :
              ResolvesFalse(o) => UNCHANGED <<lastAlertTimeRef, wasInCriticalRef>>
       /\ (\A o \in Pending : CopiesIn(o, ops') >= CopiesIn(o, ops)) =>
              UNCHANGED <<lastAlertTimeRef, wasInCriticalRef>>]_vars

\* the latch is set, the automatic OFF of the recovery was handed to the
\* transport and has been settled, and the latch is still set: the OFF failed
C32_Witness ==
    /\ wasInCriticalRef
    /\ LastCmd = "OFF"
    /\ sent[Len(sent)].by = "auto"
    /\ ops = EmptyBag

\* C33 (as claimed): the latch agrees with the condition at quiescence - with
\* the client connected and no promise of a command pending (no evaluation in
\* flight, every publish acknowledged), wasInCriticalRef being true implies
\* that the reading evaluated last had a Critical condition.
C33_LatchAgreesAtQuiescence ==
    (Connected /\ ops = EmptyBag /\ wasInCriticalRef) =>
        (Detected /\ detectResult.hasCritical)

\* the module-level client is set and is connecting or connected
AttemptStarted == client # NoClient /\ mq[client].st \in {"connecting", "connected"}

\* C34 (as claimed): manual reconnect makes progress - when the 1000 ms
\* timer of reconnect() has fired, whatever the state of the session was
\* (the end callback of the teardown still pending, connectionAttempts at the
\* ceiling), the module-level client is set and is connecting or connected.
C34_ReconnectMakesProgress ==
    [][(reconnectTimers' = reconnectTimers - 1) => AttemptStarted']_vars

\* this step is the reconnect event of a client
ReconnectEvent == \E c \in ClientIds : mq[c].st = "closed" /\ mq'[c].st = "connecting"

\* C35: connectionAttempts is set to 0 by every connect acknowledgment and is
\* changed by nothing else but the increment of a connectMqtt call that
\* creates a client and the increment of a reconnect event; disconnectMqtt
\* and its end callback leave it.
C35_AttemptCounter ==
    [][/\ ConnectAck => connectionAttempts' = 0
       /\ (connectionAttempts' # connectionAttempts) =>
              \/ ConnectAck
              \/ /\ connectionAttempts' = connectionAttempts + 1
                 /\ (created' = created + 1) \/ ReconnectEvent
       /\ (created' = created + 1 \/ ReconnectEvent) =>
              connectionAttempts' = connectionAttempts + 1
       /\ (isCleaningUp' # isCleaningUp) => UNCHANGED connectionAttempts]_vars

\* the session was torn down after a connect attempt and a reconnect event
\* without acknowledgment: the counter still stands at 2
C35_Witness ==
    /\ client = NoClient
    /\ ~isCleaningUp
    /\ NoEndPending
    /\ created = 1
    /\ connectionAttempts = 2

\* the subscribe request the connect handler of c makes for the connection
\* of c that was acknowledged
StatusFeedbackRequest(c) ==
    [on |-> c, topic |-> TOPICS.PLC_STATUS, qos |-> 1, cb |-> "pending"]

Requested(c) == [i \in 1..Len(mq[c].subs) |-> [mq[c].subs[i] EXCEPT !.cb = "pending"]]

SubscribeFailed ==
    \E c \in ClientIds : \E i \in 1..Len(mq[c].subs) :
        /\ Len(mq'[c].subs) = Len(mq[c].subs)
        /\ mq[c].subs[i].cb = "pending"
        /\ mq'[c].subs[i].cb = "failed"

====
